---- MODULE Spec2Model ----
(***************************************************************************)
(* vm-curator: extraction of a QEMU configuration from a launch script     *)
(* (vm/launch_parser.rs), the library scan that calls it                   *)
(* (vm/discovery.rs), the snapshot table parser (vm/snapshot.rs), the VM   *)
(* list of the App (app.rs) and the network settings screen                *)
(* (ui/screens/network_settings.rs).                                       *)
(*                                                                         *)
(* A Rust String / &str is a sequence of one-character strings, so that    *)
(* find, contains, lines, trim, take_while and slicing are computed the    *)
(* way the code computes them.  Only ASCII text is drawn, so byte offsets  *)
(* and character offsets coincide.                                         *)
(***************************************************************************)
EXTENDS Integers, Sequences, FiniteSets, TLC

VARIABLES
    script_path,      \* parse_launch_script: the script_path argument
    content,          \* parse_launch_script: the content argument
    overflow_checks,  \* build profile: TRUE = overflow-checks on (debug/test), FALSE = release
    parsed,           \* what the call of parse_launch_script produced ("NotCalled" before)
    library,          \* discover_vms: the entries read_dir yields, in enumeration order
    pc,               \* discover_vms: position in the function
    next_entry,       \* discover_vms: index of the entry the for loop takes next
    vms,              \* discover_vms: the local Vec<DiscoveredVm>
    scan_result,      \* discover_vms: what the caller receives
    vm_id,            \* DiscoveredVm::display_name: the id field of self
    shown,            \* DiscoveredVm::display_name: what the call returned
    app,              \* the App the key handlers work on ("NoApp" outside the UI)
    apply_result,     \* apply_network_settings: how the call ended, and whether it
                      \* reached its call of discover_vms
    output,           \* parse_snapshot_list: the output argument
    snapshots,        \* parse_snapshot_list: what the call returned ("NotCalled" before)
    last_op           \* the App operation or key handled last, and how it ended

vars == <<script_path, content, overflow_checks, parsed,
          library, pc, next_entry, vms, scan_result, vm_id, shown, app, apply_result,
          output, snapshots, last_op>>

parse_vars == <<script_path, content, parsed>>
scan_vars == <<library, pc, next_entry, vms, scan_result>>
name_vars == <<vm_id, shown>>
app_vars == <<app, apply_result>>
snap_vars == <<output, snapshots>>

(***************************************************************************)
(* Bounds of the model.                                                    *)
(***************************************************************************)
MaxFrags == 2      \* a drawn script is the concatenation of at most this many fragments
MaxEntries == 2    \* a drawn library has at most this many directory entries
MaxIdLen == 4      \* a drawn VM id has at most this many characters
MaxLines == 3      \* a drawn qemu-img output has at most this many lines
MaxRules == 2      \* the port-forward editor holds at most this many rules
MaxEditorDigits == 1   \* port inputs typed while the editor session is explored
MaxAdded == 1      \* rules added while the add dialog is explored
MaxPortDigits == 5 \* port inputs typed while the add dialog is explored

(***************************************************************************)
(* Strings.                                                                *)
(***************************************************************************)
Chars(str) == [i \in 1..Len(str) |-> SubSeq(str, i, i)]

Min(S) == CHOOSE m \in S : \A n \in S : m <= n
Max(S) == CHOOSE m \in S : \A n \in S : m >= n

Digit == {"0", "1", "2", "3", "4", "5", "6", "7", "8", "9"}
Lower == {"a", "b", "c", "d", "e", "f", "g", "h", "i", "j", "k", "l", "m",
          "n", "o", "p", "q", "r", "s", "t", "u", "v", "w", "x", "y", "z"}
Upper == {"A", "B", "C", "D", "E", "F", "G", "H", "I", "J", "K", "L", "M",
          "N", "O", "P", "Q", "R", "S", "T", "U", "V", "W", "X", "Y", "Z"}
Whitespace == {" ", "\t", "\n", "\r"}
Alphanumeric == Digit \cup Lower \cup Upper

DigitValue(c) ==
    CASE c = "0" -> 0 [] c = "1" -> 1 [] c = "2" -> 2 [] c = "3" -> 3
      [] c = "4" -> 4 [] c = "5" -> 5 [] c = "6" -> 6 [] c = "7" -> 7
      [] c = "8" -> 8 [] c = "9" -> 9

\* s[from..] in Rust, with from a 0-based offset: the text after the first `from` characters.
SliceFrom(s, from) == SubSeq(s, from + 1, Len(s))

starts_with(s, p) == Len(s) >= Len(p) /\ SubSeq(s, 1, Len(p)) = p

\* str::find: the 0-based offset of the first occurrence of p in s, or -1 (None).
find(s, p) ==
    LET hits == {i \in 0..(Len(s) - Len(p)) :
                    p = <<>> \/ (s[i + 1] = p[1] /\ SubSeq(s, i + 1, i + Len(p)) = p)}
    IN IF hits = {} THEN -1 ELSE Min(hits)

contains(s, p) == find(s, p) >= 0

\* chars().take_while(|c| !stop(c)).collect(): the longest prefix with no character of `stops`.
take_while_not(s, stops) ==
    LET at == {i \in 1..Len(s) : s[i] \in stops}
    IN IF at = {} THEN s ELSE SubSeq(s, 1, Min(at) - 1)

\* chars().take_while(|c| keep(c)).collect(): the longest prefix made of characters of `keep`.
take_while_in(s, keep) ==
    LET at == {i \in 1..Len(s) : s[i] \notin keep}
    IN IF at = {} THEN s ELSE SubSeq(s, 1, Min(at) - 1)

trim_start(s) ==
    LET at == {i \in 1..Len(s) : s[i] \notin Whitespace}
    IN IF at = {} THEN <<>> ELSE SubSeq(s, Min(at), Len(s))

trim(s) ==
    LET at == {i \in 1..Len(s) : s[i] \notin Whitespace}
    IN IF at = {} THEN <<>> ELSE SubSeq(s, Min(at), Max(at))

\* str::lines: the pieces between line feeds; a final line feed opens no further line,
\* and a carriage return right before a line feed is dropped with it.
StripCr(l) == IF Len(l) > 0 /\ l[Len(l)] = "\r" THEN SubSeq(l, 1, Len(l) - 1) ELSE l

RECURSIVE lines(_)
lines(s) ==
    IF s = <<>> THEN <<>>
    ELSE LET nl == find(s, <<"\n">>)
         IN IF nl < 0 THEN <<s>>
            ELSE <<StripCr(SubSeq(s, 1, nl))>> \o lines(SliceFrom(s, nl + 1))

\* str::replace: every non-overlapping occurrence of pat, left to right, becomes rep.
RECURSIVE replace(_, _, _)
replace(s, pat, rep) ==
    LET at == find(s, pat)
    IN IF at < 0 THEN s
       ELSE SubSeq(s, 1, at) \o rep \o replace(SliceFrom(s, at + Len(pat)), pat, rep)

RECURSIVE Concat(_)
Concat(ss) == IF ss = <<>> THEN <<>> ELSE Head(ss) \o Concat(Tail(ss))

\* `let v = x; F(v)`: x is evaluated once and F works on its value.
WithValue(x, F(_)) == CHOOSE r \in {F(v) : v \in {x}} : TRUE

\* Option<T>
None == [some |-> FALSE]
Some(v) == [some |-> TRUE, val |-> v]

(***************************************************************************)
(* u32 arithmetic.  TLC's integers stop at 2^31 - 1, so a u32 is kept as   *)
(* two 16-bit limbs: the value is hi * 65536 + lo, with hi, lo < 65536.    *)
(***************************************************************************)
Limb == 65536

u32(n) == [hi |-> n \div Limb, lo |-> n % Limb]

u32_lt(a, b) == a.hi < b.hi \/ (a.hi = b.hi /\ a.lo < b.lo)

\* value * factor + add, exactly: the high limb of the result may exceed 16 bits.
mul_add(v, factor, add) ==
    [hi |-> v.hi * factor + (v.lo * factor + add) \div Limb,
     lo |-> (v.lo * factor + add) % Limb]

fits_u32(v) == v.hi < Limb

wrap_u32(v) == [hi |-> v.hi % Limb, lo |-> v.lo]

Returned(v) == [kind |-> "Return", val |-> v]
Panicked == [kind |-> "Panic"]

\* str::parse::<u32> on a run of ASCII digits: checked multiply-and-add digit by digit,
\* Err (None here) on the empty run and as soon as the value passes u32::MAX.
RECURSIVE parse_digits(_, _)
parse_digits(acc, ds) ==
    IF ds = <<>> THEN Some(acc)
    ELSE LET step == mul_add(acc, 10, DigitValue(Head(ds)))
         IN IF fits_u32(step) THEN parse_digits(step, Tail(ds)) ELSE None

parse_u32(ds) == IF ds = <<>> THEN None ELSE parse_digits(u32(0), ds)

\* `mem * 1024` on u32: with overflow checks the product panics when it does not fit,
\* without them it wraps.
mul_1024(mem, checks) ==
    LET product == mul_add(mem, 1024, 0)
    IN IF fits_u32(product) THEN Returned(Some(product))
       ELSE IF checks THEN Panicked
       ELSE Returned(Some(wrap_u32(product)))

(***************************************************************************)
(* vm/qemu_config.rs is not among the sources: the defaults and the token  *)
(* tables below follow the specification's data model (section 3 and 4.1)  *)
(* and the parser's own unit tests.                                        *)
(***************************************************************************)
DefaultMemoryMb == 512
DefaultCpuCores == 1

NetworkConfig_default == [model |-> Chars("e1000"), user_net |-> TRUE, bridge |-> None]

QemuConfig_default ==
    [emulator |-> "X86_64", memory_mb |-> u32(DefaultMemoryMb), cpu_cores |-> u32(DefaultCpuCores),
     cpu_model |-> None, machine |-> None, vga |-> "Std", audio_devices |-> <<>>,
     enable_kvm |-> FALSE, uefi |-> FALSE, tpm |-> FALSE, disks |-> <<>>,
     network |-> None, extra_args |-> <<>>, raw_script |-> <<>>]

QemuEmulator_from_command(cmd) ==
    CASE cmd = Chars("qemu-system-x86_64") -> "X86_64"
      [] cmd = Chars("qemu-system-i386") -> "I386"
      [] cmd = Chars("qemu-system-ppc") -> "Ppc"
      [] cmd = Chars("qemu-system-m68k") -> "M68k"
      [] cmd = Chars("qemu-system-arm") -> "Arm"
      [] cmd = Chars("qemu-system-aarch64") -> "Aarch64"
      [] OTHER -> "Custom"

VgaType_from_str(s) ==
    CASE s = Chars("std") -> "Std"
      [] s = Chars("cirrus") -> "Cirrus"
      [] s = Chars("vmware") -> "Vmware"
      [] s = Chars("qxl") -> "Qxl"
      [] s = Chars("virtio") -> "Virtio"
      [] s = Chars("none") -> "None"
      [] OTHER -> "Unknown"

DiskFormat_from_extension(ext) ==
    IF ext = Chars("qcow2") THEN "Qcow2" ELSE "Raw"

(***************************************************************************)
(* vm/launch_parser.rs                                                     *)
(***************************************************************************)
\* `line.trim_start().starts_with('#')`: the guard of every per-line loop.
is_comment(line) == starts_with(trim_start(line), <<"#">>)

\* A `for line in content.lines()` loop that returns from its first successful line:
\* per_line[i] is what line i makes the body produce (None: the loop goes on).
FirstSome(per_line) ==
    LET at == {i \in DOMAIN per_line : per_line[i] # None}
    IN IF at = {} THEN None ELSE per_line[Min(at)]

emulators ==
    <<Chars("qemu-system-x86_64"), Chars("qemu-system-i386"), Chars("qemu-system-ppc"),
      Chars("qemu-system-m68k"), Chars("qemu-system-arm"), Chars("qemu-system-aarch64")>>

\* extract_emulator returning from the last entry of the table that matches.
extract_emulator_last_listed(c) ==
    LET at == {i \in DOMAIN emulators : contains(c, emulators[i])}
    IN IF at = {} THEN None ELSE Some(QemuEmulator_from_command(emulators[Max(at)]))

extract_emulator(c) ==
    LET at == {i \in DOMAIN emulators : contains(c, emulators[i])}
    IN IF at = {} THEN None ELSE Some(QemuEmulator_from_command(emulators[Min(at)]))

\* memory_of_line without the comment guard of lines 86-88.
memory_of_line_reads_comments(line, checks) ==
    LET idx == find(line, Chars("-m "))
    IN IF idx < 0 THEN Returned(None)
       ELSE LET rest == SliceFrom(line, idx + 3)
                mem == parse_u32(take_while_in(rest, Digit))
            IN IF ~mem.some THEN Returned(None)
               ELSE IF contains(rest, <<"G">>) \/ u32_lt(mem.val, u32(64))
               THEN mul_1024(mem.val, checks)
               ELSE Returned(Some(mem.val))

\* The body of extract_memory's loop for one line: Returned(None) when the loop goes on.
memory_of_line(line, checks) ==
    IF is_comment(line) THEN Returned(None)
    ELSE LET idx == find(line, Chars("-m "))
         IN IF idx < 0 THEN Returned(None)
            ELSE LET rest == SliceFrom(line, idx + 3)
                     value == take_while_in(rest, Digit)
                     mem == parse_u32(value)
                 IN IF ~mem.some THEN Returned(None)
                    ELSE IF contains(rest, <<"G">>) THEN mul_1024(mem.val, checks)
                    ELSE IF u32_lt(mem.val, u32(64)) THEN mul_1024(mem.val, checks)
                    ELSE Returned(Some(mem.val))

extract_memory(c, checks) ==
    LET ls == lines(c)
        per_line == [i \in DOMAIN ls |-> memory_of_line(ls[i], checks)]
        at == {i \in DOMAIN ls : per_line[i] # Returned(None)}
    IN IF at = {} THEN Returned(None) ELSE per_line[Min(at)]

cores_of_line(line) ==
    IF is_comment(line) THEN None
    ELSE LET idx == find(line, Chars("-smp "))
         IN IF idx < 0 THEN None
            ELSE parse_u32(take_while_in(SliceFrom(line, idx + 5), Digit))

extract_cpu_cores(c) ==
    LET ls == lines(c) IN FirstSome([i \in DOMAIN ls |-> cores_of_line(ls[i])])

\* The token after `flag` on the line, up to whitespace or one of `stops`; None when
\* the flag is not on the line or the token is empty.
token_after(line, flag, stops) ==
    LET idx == find(line, flag)
    IN IF idx < 0 THEN None
       ELSE LET tok == take_while_not(SliceFrom(line, idx + Len(flag)), Whitespace \cup stops)
            IN IF tok = <<>> THEN None ELSE Some(tok)

cpu_model_of_line(line) ==
    IF is_comment(line) THEN None ELSE token_after(line, Chars("-cpu "), {"\\"})

extract_cpu_model(c) ==
    LET ls == lines(c) IN FirstSome([i \in DOMAIN ls |-> cpu_model_of_line(ls[i])])

machine_of_line(line) ==
    IF is_comment(line) THEN None
    ELSE LET short == token_after(line, Chars("-M "), {"\\"})
         IN IF short.some THEN short
            ELSE token_after(line, Chars("-machine "), {",", "\\"})

extract_machine(c) ==
    LET ls == lines(c) IN FirstSome([i \in DOMAIN ls |-> machine_of_line(ls[i])])

vga_of_line(line) ==
    IF is_comment(line) THEN None
    ELSE LET tok == token_after(line, Chars("-vga "), {"\\"})
         IN IF tok.some THEN Some(VgaType_from_str(tok.val)) ELSE None

extract_vga(c) ==
    LET ls == lines(c) IN FirstSome([i \in DOMAIN ls |-> vga_of_line(ls[i])])

extract_audio_devices(c) ==
    (IF contains(c, Chars("sb16")) \/ contains(c, Chars("SB16")) THEN <<"Sb16">> ELSE <<>>)
    \o (IF contains(c, Chars("ac97")) \/ contains(c, Chars("AC97")) THEN <<"Ac97">> ELSE <<>>)
    \o (IF contains(c, Chars("intel-hda")) \/ contains(c, Chars("hda-duplex"))
        THEN <<"Hda">> ELSE <<>>)
    \o (IF contains(c, Chars("es1370")) THEN <<"Es1370">> ELSE <<>>)

\* `text[1..].find(quote)?` then `text[1..=end]`: the text between the opening quote
\* that starts `text` and the next quote; None when the quote is never closed.
quoted(text, quote) ==
    LET end == find(SliceFrom(text, 1), <<quote>>)
    IN IF end < 0 THEN None ELSE Some(SubSeq(text, 2, end + 1))

extract_drive_file(line) ==
    LET idx == find(line, Chars("file="))
    IN IF idx < 0 THEN None
       ELSE LET rest == SliceFrom(line, idx + 5)
            IN IF starts_with(rest, <<"\"">>) THEN quoted(rest, "\"")
               ELSE LET path == take_while_not(rest, Whitespace \cup {",", "\\"})
                    IN IF path # <<>> THEN Some(path) ELSE None

extract_path_from_arg(arg) ==
    LET trimmed == trim(arg)
    IN IF starts_with(trimmed, <<"\"">>) THEN quoted(trimmed, "\"")
       ELSE IF starts_with(trimmed, <<"'">>) THEN quoted(trimmed, "'")
       ELSE LET path == take_while_not(trimmed, Whitespace \cup {"\\"})
            IN IF path # <<>> /\ ~starts_with(path, <<"-">>) THEN Some(path) ELSE None

\* A byte that is not part of any UTF-8 text; file names may hold it, scripts read by
\* read_to_string may not.
InvalidByte == "0xFF"

\* OsStr::to_str: None when the name is not UTF-8.
to_str(name) == IF \E i \in DOMAIN name : name[i] = InvalidByte THEN None ELSE Some(name)

\* OsStr::to_string_lossy: every invalid byte becomes U+FFFD.
to_string_lossy(p) == [i \in DOMAIN p |-> IF p[i] = InvalidByte THEN "U+FFFD" ELSE p[i]]

\* Path::is_absolute and Path::join on Unix paths.
is_absolute(p) == starts_with(p, <<"/">>)

path_join(dir, p) ==
    IF is_absolute(p) THEN p
    ELSE IF dir = <<>> THEN p
    ELSE IF dir[Len(dir)] = "/" THEN dir \o p
    ELSE dir \o <<"/">> \o p

resolve_path(path, vm_dir) ==
    LET p1 == replace(path, Chars("$DIR"), to_string_lossy(vm_dir))
        p2 == replace(p1, Chars("${DIR}"), to_string_lossy(vm_dir))
        p3 == replace(p2, Chars("$(dirname $0)"), to_string_lossy(vm_dir))
    IN IF is_absolute(p3) THEN p3 ELSE path_join(vm_dir, p3)

\* Path::file_name and Path::extension: the last component, and what follows its last
\* dot when that dot is not its first character.
file_name(path) ==
    LET body == {i \in 1..Len(path) : path[i] # "/"}
        p == IF body = {} THEN <<>> ELSE SubSeq(path, 1, Max(body))
        slashes == {i \in 1..Len(p) : p[i] = "/"}
    IN IF slashes = {} THEN p ELSE SubSeq(p, Max(slashes) + 1, Len(p))

extension(path) ==
    LET name == file_name(path)
        dots == {i \in 2..Len(name) : name[i] = "."}
    IN IF dots = {} \/ name = Chars("..") THEN None
       ELSE Some(SubSeq(name, Max(dots) + 1, Len(name)))

guess_disk_format(path) ==
    LET ext == extension(path)
    IN IF ext.some THEN DiskFormat_from_extension(ext.val) ELSE "Raw"

hd_flags == <<Chars("hda"), Chars("hdb"), Chars("hdc"), Chars("hdd")>>

\* One pass of `for hd in ["hda", "hdb", "hdc", "hdd"]`: the disk the flag pushes, if any.
legacy_disk(line, hd, vm_dir) ==
    LET pattern == <<"-">> \o hd \o <<" ">>
        idx == find(line, pattern)
    IN IF idx < 0 THEN <<>>
       ELSE LET path == extract_path_from_arg(SliceFrom(line, idx + Len(pattern)))
            IN IF ~path.some THEN <<>>
               ELSE LET full_path == resolve_path(path.val, vm_dir)
                    IN <<[path |-> full_path,
                          format |-> guess_disk_format(full_path),
                          interface |-> "ide"]>>

\* The `-drive file=` branch of the loop body.
drive_disk(line, vm_dir) ==
    IF ~(contains(line, Chars("-drive")) /\ contains(line, Chars("file="))) THEN <<>>
    ELSE LET path == extract_drive_file(line)
         IN IF ~path.some THEN <<>>
            ELSE LET full_path == resolve_path(path.val, vm_dir)
                 IN <<[path |-> full_path,
                       format |-> guess_disk_format(full_path),
                       interface |-> IF contains(line, Chars("if=virtio")) THEN "virtio"
                                     ELSE IF contains(line, Chars("if=scsi")) THEN "scsi"
                                     ELSE "ide"]>>

\* What one line of the script appends to `disks`.
disks_of_line(line, vm_dir) ==
    IF is_comment(line) THEN <<>>
    ELSE Concat([h \in DOMAIN hd_flags |-> legacy_disk(line, hd_flags[h], vm_dir)])
         \o drive_disk(line, vm_dir)

extract_disks(c, vm_dir) ==
    LET ls == lines(c) IN Concat([i \in DOMAIN ls |-> disks_of_line(ls[i], vm_dir)])

\* The body of extract_network's loop: the NetworkConfig after `line`, and has_network.
network_after_line(acc, line) ==
    IF is_comment(line) THEN acc
    ELSE LET introduces == contains(line, Chars("-net nic")) \/ contains(line, Chars("-netdev"))
                           \/ contains(line, Chars("-nic"))
             model == IF ~introduces THEN acc.config.model
                      ELSE IF contains(line, Chars("model=virtio")) THEN Chars("virtio-net")
                      ELSE IF contains(line, Chars("model=e1000")) THEN Chars("e1000")
                      ELSE IF contains(line, Chars("model=rtl8139")) THEN Chars("rtl8139")
                      ELSE acc.config.model
             user == contains(line, Chars("-net user")) \/ contains(line, Chars("user,"))
             bridged == contains(line, Chars("-net bridge")) \/ contains(line, Chars("bridge,"))
             br == find(line, Chars("br="))
         IN [has_network |-> acc.has_network \/ introduces,
             config |->
                [model |-> model,
                 user_net |-> IF bridged THEN FALSE ELSE IF user THEN TRUE
                              ELSE acc.config.user_net,
                 bridge |-> IF bridged /\ br >= 0
                            THEN Some(take_while_in(SliceFrom(line, br + 3),
                                                    Alphanumeric \cup {"-", "_"}))
                            ELSE acc.config.bridge]]

RECURSIVE network_loop(_, _, _)
network_loop(acc, ls, i) ==
    IF i > Len(ls) THEN acc ELSE network_loop(network_after_line(acc, ls[i]), ls, i + 1)

extract_network(c) ==
    LET end == network_loop([has_network |-> FALSE, config |-> NetworkConfig_default],
                            lines(c), 1)
    IN IF end.has_network \/ contains(c, Chars("-net")) \/ contains(c, Chars("-nic"))
       THEN Some(end.config) ELSE None

extract_extra_args(c) ==
    (IF contains(c, Chars("-display gtk")) THEN <<Chars("-display gtk")>>
     ELSE IF contains(c, Chars("-display sdl")) THEN <<Chars("-display sdl")>>
     ELSE IF contains(c, Chars("-display vnc")) THEN <<Chars("-display vnc")>>
     ELSE <<>>)
    \o (IF contains(c, Chars("-usb")) THEN <<Chars("-usb")>> ELSE <<>>)
    \o (IF contains(c, Chars("-rtc base=localtime"))
        THEN <<Chars("-rtc base=localtime")>> ELSE <<>>)

\* Path::parent(): the path without its last component; None for the root and for "".
path_parent(path) ==
    LET slashes == {i \in 1..Len(path) : path[i] = "/"}
    IN IF path = <<>> \/ path = <<"/">> THEN None
       ELSE IF slashes = {} THEN Some(<<>>)
       ELSE IF Max(slashes) = 1 THEN Some(<<"/">>)
       ELSE Some(SubSeq(path, 1, Max(slashes) - 1))

\* Result<T>: Ok(v) and Err(e); a panic unwinds instead of returning.
Ok(v) == [kind |-> "Ok", val |-> v]
Err(e) == [kind |-> "Err", err |-> e]

\* The config parse_launch_script has built when it reaches `Ok(config)`, given what
\* extract_memory returned.
built_config(path, c, mem) ==
    LET parent == path_parent(path)
        vm_dir == IF parent.some THEN parent.val ELSE <<".">>
        emulator == extract_emulator(c)
        cores == extract_cpu_cores(c)
        vga == extract_vga(c)
    IN [emulator |-> IF emulator.some THEN emulator.val ELSE QemuConfig_default.emulator,
        memory_mb |-> IF mem.some THEN mem.val ELSE QemuConfig_default.memory_mb,
        cpu_cores |-> IF cores.some THEN cores.val ELSE QemuConfig_default.cpu_cores,
        cpu_model |-> extract_cpu_model(c),
        machine |-> extract_machine(c),
        vga |-> IF vga.some THEN vga.val ELSE QemuConfig_default.vga,
        audio_devices |-> extract_audio_devices(c),
        enable_kvm |-> contains(c, Chars("-enable-kvm")) \/ contains(c, Chars("-accel kvm")),
        uefi |-> contains(c, Chars("OVMF"))
                 \/ (contains(c, Chars("-bios")) /\ contains(c, Chars("efi"))),
        tpm |-> contains(c, Chars("-tpmdev")) \/ contains(c, Chars("swtpm")),
        disks |-> extract_disks(c, vm_dir),
        network |-> extract_network(c),
        extra_args |-> extract_extra_args(c),
        raw_script |-> c]

\* parse_launch_script without line 9, `config.raw_script = content.to_string()`.
parse_launch_script_drops_script(path, c, checks) ==
    LET mem == extract_memory(c, checks)
    IN IF mem = Panicked THEN Panicked
       ELSE Ok([built_config(path, c, mem.val) EXCEPT !.raw_script = QemuConfig_default.raw_script])

parse_launch_script(path, c, checks) ==
    LET mem == extract_memory(c, checks)
    IN IF mem = Panicked THEN Panicked ELSE Ok(built_config(path, c, mem.val))

(***************************************************************************)
(* vm/discovery.rs                                                         *)
(***************************************************************************)
\* The `match parse_launch_script(..)` of discover_vms: the (config, parse_success,
\* parse_error) attached to the VM record.
match_parse_result(res, script_content) ==
    IF res.kind = "Ok"
    THEN [config |-> res.val, parse_success |-> TRUE, parse_error |-> None]
    ELSE [config |-> [QemuConfig_default EXCEPT !.raw_script = script_content],
          parse_success |-> FALSE,
          parse_error |-> Some(res.err)]

\* Lines 76-83: the extractor as discovery sees it.
extract(launch_script, script_content, checks) ==
    LET res == parse_launch_script(launch_script, script_content, checks)
    IN IF res = Panicked THEN Panicked
       ELSE Returned(match_parse_result(res, script_content))

\* The printable ASCII characters in code-point order (32..126), for str's byte-wise
\* Ord; code point 96 is held by a placeholder, the grave accent is never drawn.
Ascii ==
    Chars(" !\"#$%&'()*+,-./0123456789:;<=>?@ABCDEFGHIJKLMNOPQRSTUVWXYZ[\\]^_")
    \o <<"GRAVE">> \o Chars("abcdefghijklmnopqrstuvwxyz{|}~")

CharCode(c) ==
    IF c = "\t" THEN 9 ELSE IF c = "\n" THEN 10 ELSE IF c = "\r" THEN 13
    ELSE 31 + (CHOOSE i \in DOMAIN Ascii : Ascii[i] = c)

to_ascii_uppercase(c) == IF c \in Lower THEN Ascii[CharCode(c) - 31 - 32] ELSE c

\* Ordering::Less / Equal of `a.cmp(&b)` on strings: lexicographic by code point.
str_le(a, b) ==
    LET n == IF Len(a) < Len(b) THEN Len(a) ELSE Len(b)
        diff == {i \in 1..n : a[i] # b[i]}
    IN IF diff = {} THEN Len(a) <= Len(b)
       ELSE CharCode(a[Min(diff)]) < CharCode(b[Min(diff)])

RECURSIVE split_whitespace(_)
split_whitespace(s) ==
    LET t == trim_start(s)
    IN IF t = <<>> THEN <<>>
       ELSE LET word == take_while_not(t, Whitespace)
            IN <<word>> \o split_whitespace(SliceFrom(t, Len(word)))

RECURSIVE join(_, _)
join(words, sep) ==
    IF words = <<>> THEN <<>>
    ELSE IF Len(words) = 1 THEN words[1]
    ELSE words[1] \o sep \o join(Tail(words), sep)

capitalize(word) == [i \in DOMAIN word |-> IF i = 1 THEN to_ascii_uppercase(word[i]) ELSE word[i]]

\* display_name whose map upper-cases the first word only.
display_name_first_word_only(id) ==
    LET spaced == [i \in DOMAIN id |-> IF id[i] = "-" THEN " " ELSE id[i]]
        words == split_whitespace(spaced)
    IN join([i \in DOMAIN words |-> IF i = 1 THEN capitalize(words[i]) ELSE words[i]],
            <<" ">>)

display_name(id) ==
    LET spaced == [i \in DOMAIN id |-> IF id[i] = "-" THEN " " ELSE id[i]]
        words == split_whitespace(spaced)
    IN join([i \in DOMAIN words |-> capitalize(words[i])], <<" ">>)

\* sort_by_display_name comparing the ids themselves, `a.id.cmp(&b.id)`.
RECURSIVE sort_by_id(_)
sort_by_id(v) ==
    IF Len(v) <= 1 THEN v
    ELSE LET front == sort_by_id(SubSeq(v, 1, Len(v) - 1))
             x == v[Len(v)]
             k == Cardinality({i \in DOMAIN front : str_le(front[i].id, x.id)})
         IN SubSeq(front, 1, k) \o <<x>> \o SubSeq(front, k + 1, Len(front))

\* vms.sort_by(|a, b| a.display_name().cmp(&b.display_name())): a stable sort.
RECURSIVE sort_by_display_name(_)
sort_by_display_name(v) ==
    IF Len(v) <= 1 THEN v
    ELSE LET front == sort_by_display_name(SubSeq(v, 1, Len(v) - 1))
             x == v[Len(v)]
             k == Cardinality({i \in DOMAIN front :
                                 str_le(display_name(front[i].id), display_name(x.id))})
         IN SubSeq(front, 1, k) \o <<x>> \o SubSeq(front, k + 1, Len(front))

\* The library root, config.vm_library_path.
LibraryPath == Chars("/l")

\* Lines 55-92 for one directory that holds launch.sh: the record pushed to vms.
vm_record(e, checks) ==
    LET path == path_join(LibraryPath, e.name)
        launch_script == path_join(path, Chars("launch.sh"))
        \* file_name().and_then(|n| n.to_str()).unwrap_or("unknown")
        id == IF to_str(file_name(path)).some THEN to_str(file_name(path)).val
              ELSE Chars("unknown")
        script_content == IF e.kind = "Vm" THEN e.script ELSE <<>>
    IN WithValue(extract(launch_script, script_content, checks),
                 LAMBDA got :
                    IF got = Panicked THEN Panicked
                    ELSE Returned([id |-> id, path |-> path, launch_script |-> launch_script,
                                   config |-> got.val.config,
                                   parse_success |-> got.val.parse_success,
                                   parse_error |-> got.val.parse_error]))

\* The `for entry in entries` loop and what follows it, as one call.
RECURSIVE scan_entries(_, _, _)
scan_entries(entries, acc, checks) ==
    IF entries = <<>> THEN Ok(sort_by_display_name(acc))
    ELSE IF Head(entries).kind = "Error" THEN Err("io error")
    ELSE IF Head(entries).kind \in {"File", "Dir", "DirNested"}
    THEN scan_entries(Tail(entries), acc, checks)
    ELSE WithValue(vm_record(Head(entries), checks),
                   LAMBDA record :
                      IF record = Panicked THEN Panicked
                      ELSE scan_entries(Tail(entries), Append(acc, record.val), checks))

\* discover_vms as a caller sees it: Ok(records), Err(..), or a panic.
discover_vms(lib, checks) ==
    IF lib.root = "Missing" THEN Ok(<<>>)
    ELSE IF lib.root = "Unreadable" THEN Err("Failed to read VM library")
    ELSE scan_entries(lib.entries, <<>>, checks)

(***************************************************************************)
(* vm/snapshot.rs                                                          *)
(***************************************************************************)
\* Line 43: the test that makes a line a header line.
is_header(line) ==
    \/ starts_with(line, Chars("Snapshot"))
    \/ starts_with(line, Chars("ID"))
    \/ starts_with(line, Chars("--"))

\* Lines 53-75: the Snapshot pushed for a line, if any.
snapshot_of_line(line) ==
    LET parts == split_whitespace(line)
    IN IF Len(parts) >= 5
       THEN Some([id |-> parts[1], name |-> parts[2], size |-> parts[3],
                  date |-> parts[4] \o <<" ">> \o parts[5],
                  vm_clock |-> parts[Len(parts)]])
       ELSE None

\* One turn of the `for line in output.lines()` loop.
snapshot_after_line(acc, raw) ==
    LET line == trim(raw)
    IN IF is_header(line) THEN [acc EXCEPT !.in_table = TRUE]
       ELSE IF ~acc.in_table \/ line = <<>> THEN acc
       ELSE IF snapshot_of_line(line).some
       THEN [acc EXCEPT !.snapshots = Append(@, snapshot_of_line(line).val)]
       ELSE acc

RECURSIVE snapshot_loop(_, _, _)
snapshot_loop(acc, ls, i) ==
    IF i > Len(ls) THEN acc ELSE snapshot_loop(snapshot_after_line(acc, ls[i]), ls, i + 1)

\* parse_snapshot_list with in_table starting true.
parse_snapshot_list_no_header_wait(out) ==
    Ok(snapshot_loop([snapshots |-> <<>>, in_table |-> TRUE], lines(out), 1).snapshots)

parse_snapshot_list(out) ==
    Ok(snapshot_loop([snapshots |-> <<>>, in_table |-> FALSE], lines(out), 1).snapshots)

(***************************************************************************)
(* app.rs                                                                  *)
(***************************************************************************)
to_ascii_lowercase(c) == IF c \in Upper THEN Ascii[CharCode(c) - 31 + 32] ELSE c

\* str::to_lowercase on ASCII text.
to_lowercase(str) == [i \in DOMAIN str |-> to_ascii_lowercase(str[i])]

\* (0..n).collect(): the 0-based indices 0 .. n-1.
index_range(n) == [i \in 1..n |-> i - 1]

\* iter().enumerate().filter(pred).map(|(i, _)| i).collect() over the 0-based indices.
RECURSIVE filter_indices(_, _)
filter_indices(keep, n) ==
    IF n = 0 THEN <<>>
    ELSE filter_indices(keep, n - 1) \o (IF (n - 1) \in keep THEN <<n - 1>> ELSE <<>>)

\* App::selected_vm
selected_vm(a) ==
    IF a.filtered_indices = <<>> THEN None
    ELSE IF a.selected_vm >= Len(a.filtered_indices) THEN None
    ELSE LET actual_idx == a.filtered_indices[a.selected_vm + 1]
         IN IF actual_idx >= Len(a.vms) THEN None ELSE Some(a.vms[actual_idx + 1])

\* App::pop_screen
pop_screen(a) ==
    IF a.screen_stack = <<>> THEN a
    ELSE [a EXCEPT !.screen = a.screen_stack[Len(a.screen_stack)],
                   !.screen_stack = SubSeq(a.screen_stack, 1, Len(a.screen_stack) - 1)]

\* App::update_filter
update_filter(a) ==
    LET query == to_lowercase(a.search_query)
        matching == {i \in 0..(Len(a.vms) - 1) :
                        \/ contains(to_lowercase(display_name(a.vms[i + 1].id)), query)
                        \/ contains(to_lowercase(a.vms[i + 1].id), query)}
        indices == IF a.search_query = <<>> THEN index_range(Len(a.vms))
                   ELSE filter_indices(matching, Len(a.vms))
    IN [a EXCEPT !.filtered_indices = indices,
                 !.selected_vm = IF a.selected_vm >= Len(indices)
                                 THEN (IF Len(indices) = 0 THEN 0 ELSE Len(indices) - 1)
                                 ELSE a.selected_vm]

\* App::set_status
set_status(a, msg) == [a EXCEPT !.status_message = Some(msg)]

\* App::select_prev
select_prev(a) ==
    IF a.filtered_indices # <<>> /\ a.selected_vm > 0
    THEN [a EXCEPT !.selected_vm = a.selected_vm - 1] ELSE a

\* select_next comparing with len() instead of len() - 1.
select_next_past_end(a) ==
    IF a.filtered_indices # <<>> /\ a.selected_vm < Len(a.filtered_indices)
    THEN [a EXCEPT !.selected_vm = a.selected_vm + 1] ELSE a

\* App::select_next
select_next(a) ==
    IF a.filtered_indices # <<>> /\ a.selected_vm < Len(a.filtered_indices) - 1
    THEN [a EXCEPT !.selected_vm = a.selected_vm + 1] ELSE a

\* refresh_vms keeping the record it already has for every id the scan finds again.
refresh_vms_keeps_known(a, found) ==
    IF found = Panicked THEN [result |-> "Panic", app |-> a]
    ELSE IF found.kind = "Err" THEN [result |-> "Err", app |-> a]
    ELSE LET known(i) == {j \in DOMAIN a.vms : a.vms[j].id = found.val[i].id}
             merged == [i \in DOMAIN found.val |->
                           IF known(i) # {} THEN a.vms[Min(known(i))] ELSE found.val[i]]
         IN [result |-> "Ok", app |-> update_filter([a EXCEPT !.vms = merged])]

\* App::refresh_vms, given what its call of discover_vms returns (found): how the
\* call ends and the App after it.
refresh_vms(a, found) ==
    IF found = Panicked THEN [result |-> "Panic", app |-> a]
    ELSE IF found.kind = "Err" THEN [result |-> "Err", app |-> a]
    ELSE [result |-> "Ok", app |-> update_filter([a EXCEPT !.vms = found.val])]

(***************************************************************************)
(* ui/screens/network_settings.rs                                          *)
(***************************************************************************)
NETWORK_OPTIONS ==
    <<Chars("virtio"), Chars("e1000"), Chars("rtl8139"), Chars("ne2k_pci"), Chars("pcnet"),
      Chars("none")>>

\* The decimal text of a port number.
RECURSIVE to_decimal(_)
to_decimal(n) ==
    IF n < 10 THEN <<Ascii[n + 17]>> ELSE to_decimal(n \div 10) \o <<Ascii[(n % 10) + 17]>>

\* vm/create.rs is not among the sources.  The network clause and its placement
\* follow the specification (sections 4.3 and 6): a generic-nic flag with the backend
\* marker, the port-forward rules or the br= attribute, and the model= attribute.
hostfwd(pf) ==
    Chars(",hostfwd=") \o pf.protocol \o Chars("::") \o to_decimal(pf.host_port)
        \o Chars("-:") \o to_decimal(pf.guest_port)

network_clause(model, backend, bridge_name, port_forwards) ==
    IF model = Chars("none") \/ backend = Chars("none") THEN Chars("-nic none")
    ELSE Chars("-nic ") \o backend
         \o (IF backend = Chars("bridge")
             THEN Chars(",br=") \o (IF bridge_name.some THEN bridge_name.val
                                    ELSE Chars("qemubr0"))
             ELSE Concat([i \in DOMAIN port_forwards |-> hostfwd(port_forwards[i])]))
         \o Chars(",model=") \o model

\* The 0-based offsets at which the lines of the text start.
line_starts(text) == {0} \cup {i \in 1..(Len(text) - 1) : text[i] = "\n"}

line_at(text, start) == take_while_not(SliceFrom(text, start), {"\n"})

\* The existing clause: the first generic-nic flag on a non-comment line, with its
\* argument; <<offset, length>>, or <<-1, 0>>.
existing_clause(text) ==
    LET at == {st \in line_starts(text) :
                  text # <<>> /\ ~is_comment(line_at(text, st))
                  /\ contains(line_at(text, st), Chars("-nic "))}
    IN IF at = {} THEN <<-1, 0>>
       ELSE LET line == line_at(text, Min(at))
                idx == find(line, Chars("-nic "))
                arg == take_while_not(SliceFrom(line, idx + 5), Whitespace \cup {"\\"})
            IN <<Min(at) + idx, 5 + Len(arg)>>

\* The anchor of an insertion: the start of the first line that names an emulator.
emulator_line(text) ==
    LET at == {st \in line_starts(text) :
                  text # <<>> /\ extract_emulator(line_at(text, st)).some}
    IN IF at = {} THEN -1 ELSE Min(at)

\* rewrite_network putting a new clause at the end of the file.
rewrite_network_appends(text, clause) ==
    LET old == existing_clause(text)
    IN IF old[1] >= 0
       THEN Ok(SubSeq(text, 1, old[1]) \o clause \o SliceFrom(text, old[1] + old[2]))
       ELSE IF emulator_line(text) >= 0
       THEN Ok(text \o (IF text[Len(text)] = "\n" THEN <<>> ELSE <<"\n">>) \o clause
               \o <<"\n">>)
       ELSE Err("RewriteTargetNotFound")

\* rewrite(script_text, network change): the existing clause is replaced in place; with
\* no clause the new one goes on a line of its own right before the emulator line;
\* with no anchor the rewrite fails.
rewrite_network(text, clause) ==
    LET old == existing_clause(text)
        anchor == emulator_line(text)
    IN IF old[1] >= 0
       THEN Ok(SubSeq(text, 1, old[1]) \o clause \o SliceFrom(text, old[1] + old[2]))
       ELSE IF anchor >= 0
       THEN Ok(SubSeq(text, 1, anchor) \o clause \o <<"\n">> \o SliceFrom(text, anchor))
       ELSE Err("RewriteTargetNotFound")

\* The directory entry whose path is vm_path, 0 when there is none.
entry_of(lib, vm_path) ==
    LET at == {e \in DOMAIN lib.entries : path_join(LibraryPath, lib.entries[e].name) = vm_path}
    IN IF at = {} THEN 0 ELSE Min(at)

\* update_network_in_script: read launch.sh, build the whole new text, then overwrite
\* the file; io_ok tells whether the file system lets the write through.
update_network_in_script(lib, vm_path, model, backend, bridge_name, port_forwards, io_ok) ==
    LET e == entry_of(lib, vm_path)
        new == rewrite_network(lib.entries[e].script,
                               network_clause(model, backend, bridge_name, port_forwards))
    IN IF e = 0 \/ lib.entries[e].kind # "Vm" THEN [result |-> Err("IoFailure"), lib |-> lib]
       ELSE IF new.kind = "Err" THEN [result |-> new, lib |-> lib]
       ELSE IF ~io_ok THEN [result |-> Err("IoFailure"), lib |-> lib]
       ELSE [result |-> Ok("written"),
             lib |-> [lib EXCEPT !.entries[e].script = new.val]]

\* App::reload_selected_vm_script: the selected record takes the text now on disk.
reload_selected_vm_script(a, lib) ==
    LET vm == selected_vm(a)
        e == IF vm.some THEN entry_of(lib, vm.val.path) ELSE 0
    IN IF ~vm.some \/ e = 0 \/ lib.entries[e].kind # "Vm" THEN a
       ELSE [a EXCEPT !.vms[a.filtered_indices[a.selected_vm + 1] + 1].config.raw_script
                          = lib.entries[e].script]

\* Lines 593-596, the tail both branches share.
close_settings(a) == pop_screen([a EXCEPT !.network_settings_state = None])

\* apply_network_settings without the `?` of line 581: the error of the rewrite is
\* handed back only after the rest of the function has run.
apply_network_settings_keeps_going(a, upd, found) ==
    LET reloaded == reload_selected_vm_script(a, upd.lib)
        renewed == IF found.kind = "Ok" THEN update_filter([reloaded EXCEPT !.vms = found.val])
                   ELSE reloaded
    IN IF ~selected_vm(a).some
       THEN [result |-> Ok("applied"), rescanned |-> FALSE, app |-> close_settings(a)]
       ELSE IF found = Panicked
       THEN [result |-> Panicked, rescanned |-> TRUE, app |-> a]
       ELSE [result |-> upd.result, rescanned |-> TRUE,
             app |-> close_settings(set_status(renewed, Chars("Network settings updated")))]

\* apply_network_settings, given what its call of update_network_in_script returns
\* (upd) and what its call of discover_vms returns when it is reached (found): the
\* Result, the App after the call, and whether discover_vms was called.
apply_network_settings(a, upd, found) ==
    LET reloaded == reload_selected_vm_script(a, upd.lib)
        renewed == IF found.kind = "Ok" THEN update_filter([reloaded EXCEPT !.vms = found.val])
                   ELSE reloaded
    IN IF ~selected_vm(a).some
       THEN [result |-> Ok("applied"), rescanned |-> FALSE, app |-> close_settings(a)]
       ELSE IF upd.result.kind = "Err"
       THEN [result |-> upd.result, rescanned |-> FALSE, app |-> a]
       ELSE IF found = Panicked
       THEN [result |-> Panicked, rescanned |-> TRUE, app |-> a]
       ELSE [result |-> Ok("applied"), rescanned |-> TRUE,
             app |-> close_settings(set_status(renewed, Chars("Network settings updated")))]

\* Iterator::position(..).unwrap_or(0): the 0-based place of the first equal element.
position_or_0(options, current) ==
    LET at == {i \in DOMAIN options : options[i] = current}
    IN IF at = {} THEN 0 ELSE Min(at) - 1

\* cycle_option, and the same computation of lines 442-447 and 459-464:
\* options[(position + delta).rem_euclid(len)].
cycle_option(current, options, delta) ==
    options[((position_or_0(options, current) + delta) % Len(options)) + 1]

\* str::parse::<u16> of a text the dialog has built (digits only).
RECURSIVE decimal_value(_)
decimal_value(ds) ==
    IF ds = <<>> THEN 0
    ELSE decimal_value(SubSeq(ds, 1, Len(ds) - 1)) * 10 + DigitValue(ds[Len(ds)])

parse_u16(ds) ==
    IF ds = <<>> \/ decimal_value(ds) > 65535 THEN Err("ParseIntError")
    ELSE Ok(decimal_value(ds))

\* Vec::remove(index), index 0-based.
remove_at(v, index) == SubSeq(v, 1, index) \o SubSeq(v, index + 2, Len(v))

\* String::pop
pop_char(str) == IF str = <<>> THEN str ELSE SubSeq(str, 1, Len(str) - 1)

PortForward(protocol, host_port, guest_port) ==
    [protocol |-> protocol, host_port |-> host_port, guest_port |-> guest_port]

Tcp == Chars("tcp")
Udp == Chars("udp")

\* App::get_network_backend_options is not among the sources: the ids of the backends
\* the host offers, as the detected capabilities of the App list them.
get_network_backend_options(a) == a.network_caps.backends

\* handle_adding_pf leaving the HostPort step whatever the host port input is.
handle_adding_pf_unchecked_host(ns, key) ==
    LET adding == ns.adding_pf.val
        host == parse_u16(adding.host_port_input)
        guest == parse_u16(adding.guest_port_input)
    IN CASE key = "Esc" -> [ns EXCEPT !.adding_pf = None]
         [] key = "Enter" ->
              (CASE adding.step = "Protocol" ->
                      [ns EXCEPT !.adding_pf = Some([adding EXCEPT !.step = "HostPort"])]
                 [] adding.step = "HostPort" ->
                      [ns EXCEPT !.adding_pf = Some([adding EXCEPT !.step = "GuestPort"])]
                 [] adding.step = "GuestPort" ->
                      IF host.kind = "Ok" /\ guest.kind = "Ok"
                      THEN [ns EXCEPT
                              !.port_forwards =
                                  Append(@, PortForward(adding.protocol, host.val, guest.val)),
                              !.adding_pf = None]
                      ELSE ns)
         [] key \in {"Left", "Right"} ->
              IF adding.step = "Protocol"
              THEN [ns EXCEPT !.adding_pf =
                        Some([adding EXCEPT !.protocol = IF @ = Tcp THEN Udp ELSE Tcp])]
              ELSE ns
         [] key \in Digit ->
              (CASE adding.step = "HostPort" ->
                      [ns EXCEPT !.adding_pf =
                          Some([adding EXCEPT !.host_port_input = Append(@, key)])]
                 [] adding.step = "GuestPort" ->
                      [ns EXCEPT !.adding_pf =
                          Some([adding EXCEPT !.guest_port_input = Append(@, key)])]
                 [] OTHER -> ns)
         [] key = "Backspace" ->
              (CASE adding.step = "HostPort" ->
                      [ns EXCEPT !.adding_pf =
                          Some([adding EXCEPT !.host_port_input = pop_char(@)])]
                 [] adding.step = "GuestPort" ->
                      [ns EXCEPT !.adding_pf =
                          Some([adding EXCEPT !.guest_port_input = pop_char(@)])]
                 [] OTHER -> ns)
         [] OTHER -> ns

\* handle_adding_pf, on the settings state ns whose adding_pf is Some.
handle_adding_pf(ns, key) ==
    LET adding == ns.adding_pf.val
        host == parse_u16(adding.host_port_input)
        guest == parse_u16(adding.guest_port_input)
    IN CASE key = "Esc" -> [ns EXCEPT !.adding_pf = None]
         [] key = "Enter" ->
              (CASE adding.step = "Protocol" ->
                      [ns EXCEPT !.adding_pf = Some([adding EXCEPT !.step = "HostPort"])]
                 [] adding.step = "HostPort" ->
                      IF host.kind = "Ok"
                      THEN [ns EXCEPT !.adding_pf = Some([adding EXCEPT !.step = "GuestPort"])]
                      ELSE ns
                 [] adding.step = "GuestPort" ->
                      IF host.kind = "Ok" /\ guest.kind = "Ok"
                      THEN [ns EXCEPT
                              !.port_forwards =
                                  Append(@, PortForward(adding.protocol, host.val, guest.val)),
                              !.adding_pf = None]
                      ELSE ns)
         [] key \in {"Left", "Right"} ->
              IF adding.step = "Protocol"
              THEN [ns EXCEPT !.adding_pf =
                        Some([adding EXCEPT !.protocol = IF @ = Tcp THEN Udp ELSE Tcp])]
              ELSE ns
         [] key \in Digit ->
              (CASE adding.step = "HostPort" ->
                      [ns EXCEPT !.adding_pf =
                          Some([adding EXCEPT !.host_port_input = Append(@, key)])]
                 [] adding.step = "GuestPort" ->
                      [ns EXCEPT !.adding_pf =
                          Some([adding EXCEPT !.guest_port_input = Append(@, key)])]
                 [] OTHER -> ns)
         [] key = "Backspace" ->
              (CASE adding.step = "HostPort" ->
                      [ns EXCEPT !.adding_pf =
                          Some([adding EXCEPT !.host_port_input = pop_char(@)])]
                 [] adding.step = "GuestPort" ->
                      [ns EXCEPT !.adding_pf =
                          Some([adding EXCEPT !.guest_port_input = pop_char(@)])]
                 [] OTHER -> ns)
         [] OTHER -> ns

add_preset(ns, protocol, host_port, guest_port) ==
    IF \E i \in DOMAIN ns.port_forwards :
          /\ ns.port_forwards[i].host_port = host_port
          /\ ns.port_forwards[i].guest_port = guest_port
    THEN ns
    ELSE [ns EXCEPT !.port_forwards = Append(@, PortForward(protocol, host_port, guest_port))]

\* The editor's match without the adjustment of pf_selected after a removal.
handle_editor_key_keeps_selection(ns, key) ==
    CASE key = "Esc" -> [ns EXCEPT !.editing_port_forwards = FALSE]
      [] key \in {"j", "Down"} ->
           IF ns.pf_selected < Max({Len(ns.port_forwards) - 1, 0})
           THEN [ns EXCEPT !.pf_selected = @ + 1] ELSE ns
      [] key \in {"k", "Up"} ->
           IF ns.pf_selected > 0 THEN [ns EXCEPT !.pf_selected = @ - 1] ELSE ns
      [] key \in {"a", "Enter"} ->
           [ns EXCEPT !.adding_pf =
               Some([step |-> "Protocol", protocol |-> Tcp,
                     host_port_input |-> <<>>, guest_port_input |-> <<>>])]
      [] key \in {"d", "Delete"} ->
           IF ns.port_forwards # <<>> /\ ns.pf_selected < Len(ns.port_forwards)
           THEN [ns EXCEPT !.port_forwards = remove_at(ns.port_forwards, ns.pf_selected)]
           ELSE ns
      [] key = "1" -> add_preset(ns, Tcp, 2222, 22)
      [] key = "2" -> add_preset(ns, Tcp, 13389, 3389)
      [] key = "3" -> add_preset(ns, Tcp, 8080, 80)
      [] key = "4" -> add_preset(ns, Tcp, 8443, 443)
      [] key = "5" -> add_preset(ns, Tcp, 15900, 5900)
      [] OTHER -> ns

\* Lines 346-393: the keys of the port-forward editor while no rule is being added.
handle_editor_key(ns, key) ==
    CASE key = "Esc" -> [ns EXCEPT !.editing_port_forwards = FALSE]
      [] key \in {"j", "Down"} ->
           IF ns.pf_selected < Max({Len(ns.port_forwards) - 1, 0})
           THEN [ns EXCEPT !.pf_selected = @ + 1] ELSE ns
      [] key \in {"k", "Up"} ->
           IF ns.pf_selected > 0 THEN [ns EXCEPT !.pf_selected = @ - 1] ELSE ns
      [] key \in {"a", "Enter"} ->
           [ns EXCEPT !.adding_pf =
               Some([step |-> "Protocol", protocol |-> Tcp,
                     host_port_input |-> <<>>, guest_port_input |-> <<>>])]
      [] key \in {"d", "Delete"} ->
           IF ns.port_forwards # <<>> /\ ns.pf_selected < Len(ns.port_forwards)
           THEN LET left == remove_at(ns.port_forwards, ns.pf_selected)
                IN [ns EXCEPT !.port_forwards = left,
                              !.pf_selected = IF @ >= Len(left) /\ @ > 0 THEN @ - 1 ELSE @]
           ELSE ns
      [] key = "1" -> add_preset(ns, Tcp, 2222, 22)
      [] key = "2" -> add_preset(ns, Tcp, 13389, 3389)
      [] key = "3" -> add_preset(ns, Tcp, 8080, 80)
      [] key = "4" -> add_preset(ns, Tcp, 8443, 443)
      [] key = "5" -> add_preset(ns, Tcp, 15900, 5900)
      [] OTHER -> ns

\* Lines 403-411
show_pf(ns) == ns.backend \in {Chars("user"), Chars("passt")}
max_field(ns) == IF show_pf(ns) \/ ns.backend = Chars("bridge") THEN 2 ELSE 1

\* Lines 471-481: the key is Enter and the handler goes on to apply_network_settings.
enters_apply(a, key) ==
    /\ a.network_settings_state.some
    /\ ~a.network_settings_state.val.editing_port_forwards
    /\ key = "Enter"
    /\ ~(a.network_settings_state.val.selected_field = 2
          /\ show_pf(a.network_settings_state.val))

\* The Down branch comparing with 2 instead of max_field.
handle_settings_key_any_field(a, key) ==
    LET ns == a.network_settings_state.val
        backend_options == get_network_backend_options(a)
        system_bridges == a.network_caps.system_bridges
        delta == IF key = "Right" THEN 1 ELSE -1
        set(new) == [a EXCEPT !.network_settings_state = Some(new)]
    IN CASE key = "Esc" -> pop_screen([a EXCEPT !.network_settings_state = None])
         [] key \in {"j", "Down"} ->
              IF ns.selected_field < 2
              THEN set([ns EXCEPT !.selected_field = @ + 1]) ELSE a
         [] key \in {"k", "Up"} ->
              IF ns.selected_field > 0 THEN set([ns EXCEPT !.selected_field = @ - 1]) ELSE a
         [] key \in {"Left", "Right"} ->
              (CASE ns.selected_field = 0 ->
                      set([ns EXCEPT !.model = cycle_option(@, NETWORK_OPTIONS, delta)])
                 [] ns.selected_field = 1 ->
                      LET backend == cycle_option(ns.backend, backend_options, delta)
                      IN set([ns EXCEPT
                                !.backend = backend,
                                !.bridge_name =
                                    IF backend = Chars("bridge") /\ ~ns.bridge_name.some
                                    THEN (IF system_bridges # <<>> THEN Some(system_bridges[1])
                                          ELSE Some(Chars("qemubr0")))
                                    ELSE @])
                 [] ns.selected_field = 2 /\ ns.backend = Chars("bridge") ->
                      IF system_bridges # <<>>
                      THEN set([ns EXCEPT !.bridge_name =
                                  Some(cycle_option(IF @.some THEN @.val ELSE <<>>,
                                                    system_bridges, delta))])
                      ELSE a
                 [] OTHER -> a)
         [] key = "Enter" /\ ns.selected_field = 2 /\ show_pf(ns) ->
              set([ns EXCEPT !.editing_port_forwards = TRUE, !.pf_selected = 0])
         [] OTHER -> a

\* Lines 397-485: the keys of the settings screen outside the port-forward editor.
\* The call of apply_network_settings (enters_apply) is the action
\* ApplyNetworkSettings; here that branch leaves the App as it is.
handle_settings_key(a, key) ==
    LET ns == a.network_settings_state.val
        backend_options == get_network_backend_options(a)
        system_bridges == a.network_caps.system_bridges
        delta == IF key = "Right" THEN 1 ELSE -1
        set(new) == [a EXCEPT !.network_settings_state = Some(new)]
    IN CASE key = "Esc" -> pop_screen([a EXCEPT !.network_settings_state = None])
         [] key \in {"j", "Down"} ->
              IF ns.selected_field < max_field(ns)
              THEN set([ns EXCEPT !.selected_field = @ + 1]) ELSE a
         [] key \in {"k", "Up"} ->
              IF ns.selected_field > 0 THEN set([ns EXCEPT !.selected_field = @ - 1]) ELSE a
         [] key \in {"Left", "Right"} ->
              (CASE ns.selected_field = 0 ->
                      set([ns EXCEPT !.model = cycle_option(@, NETWORK_OPTIONS, delta)])
                 [] ns.selected_field = 1 ->
                      LET backend == cycle_option(ns.backend, backend_options, delta)
                      IN set([ns EXCEPT
                                !.backend = backend,
                                !.bridge_name =
                                    IF backend = Chars("bridge") /\ ~ns.bridge_name.some
                                    THEN (IF system_bridges # <<>> THEN Some(system_bridges[1])
                                          ELSE Some(Chars("qemubr0")))
                                    ELSE @])
                 [] ns.selected_field = 2 /\ ns.backend = Chars("bridge") ->
                      IF system_bridges # <<>>
                      THEN set([ns EXCEPT !.bridge_name =
                                  Some(cycle_option(IF @.some THEN @.val ELSE <<>>,
                                                    system_bridges, delta))])
                      ELSE a
                 [] OTHER -> a)
         [] key = "Enter" /\ ns.selected_field = 2 /\ show_pf(ns) ->
              set([ns EXCEPT !.editing_port_forwards = TRUE, !.pf_selected = 0])
         [] OTHER -> a

\* handle_key: the dispatch of lines 334-344 over the three handlers.
handle_key(a, key) ==
    IF ~a.network_settings_state.some THEN a
    ELSE LET ns == a.network_settings_state.val
         IN IF ns.editing_port_forwards
            THEN [a EXCEPT !.network_settings_state =
                     Some(IF ns.adding_pf.some THEN handle_adding_pf(ns, key)
                          ELSE handle_editor_key(ns, key))]
            ELSE handle_settings_key(a, key)

(***************************************************************************)
(* Inputs.                                                                 *)
(***************************************************************************)
\* Pieces of launch scripts; a drawn script is a concatenation of at most MaxFrags.
\* A flag carries the blank or the line feed that separates it from what precedes it.
Fragments ==
    { Chars("qemu-system-i386"), Chars("\n"), Chars("# "),
      Chars(" -vga std"), Chars("\n-vga cirrus"),
      Chars(" -m 4"), Chars(" -m 63"), Chars(" -m 64"), Chars(" -m 512"), Chars(" -m 2G"),
      Chars(" -m 4194304G"), Chars(" -m 99999999999"), Chars(" -cpu G4"),
      Chars(" -smp 2"),
      Chars(" -hdb b.img"), Chars(" -hda a.img"), Chars("\n-drive file=$DIR/c.qcow2,if=virtio"),
      Chars(" -hdc \"d e.img"), Chars(" -hdd ''"),
      Chars(" -net none"), Chars(" -net nic,model=virtio"), Chars(" -netdev user,id=n0"),
      Chars(" -nic bridge,br=br0") }

Scripts ==
    {Concat(fs) : fs \in UNION {[1..n -> Fragments] : n \in 0..MaxFrags}}

\* What discover_vms passes for the VM w-95 of the library /l and of the library l
\* (a library path given relative to the working directory).
ScriptPaths == {Chars("/l/w-95/launch.sh"), Chars("l/w-95/launch.sh")}

\* What the directory of the library root holds.
Names == {Chars("w-95"), Chars("dos"), Chars("Mac"), <<"m", InvalidByte>>}

DiscoveryScripts ==
    { <<>>, Chars("qemu-system-i386 -m 512 -vga cirrus"), Chars(" -m 4194304G") }

\* File: a plain file.  Dir: a directory without launch.sh.  DirNested: a directory
\* without launch.sh of its own, one of whose subdirectories holds a launch.sh.
\* Vm: a directory with a readable launch.sh.  VmUnreadable: launch.sh exists, reading
\* it fails.  Error: the directory iterator yields Err for the entry.
Entries ==
    [name : Names, kind : {"File", "Dir", "DirNested", "VmUnreadable", "Error"},
     script : {<<>>}]
    \cup [name : Names, kind : {"Vm"}, script : DiscoveryScripts]

EntryLists ==
    {es \in UNION {[1..n -> Entries] : n \in 0..MaxEntries} :
        \A i, j \in DOMAIN es : i # j => es[i].name # es[j].name}

Libraries ==
    {[root |-> "Ok", entries |-> es] : es \in EntryLists}
    \cup {[root |-> r, entries |-> <<>>] : r \in {"Missing", "Unreadable"}}

NotCalled == [kind |-> "NotCalled"]
NoApp == [kind |-> "NoApp"]
NoLibrary == [root |-> "Missing", entries |-> <<>>]

(***************************************************************************)
(* The extractor called on one script.                                     *)
(***************************************************************************)
InitParse ==
    /\ script_path \in ScriptPaths
    /\ content \in Scripts
    /\ overflow_checks \in BOOLEAN
    /\ parsed = NotCalled
    /\ library = NoLibrary
    /\ pc = "idle"
    /\ next_entry = 0
    /\ vms = <<>>
    /\ scan_result = NotCalled
    /\ vm_id = <<>>
    /\ shown = NotCalled
    /\ app = NoApp
    /\ apply_result = NotCalled
    /\ output = <<>>
    /\ snapshots = NotCalled
    /\ last_op = NotCalled

Extract ==
    /\ pc = "idle"
    /\ parsed = NotCalled
    /\ parsed' = extract(script_path, content, overflow_checks)
    /\ UNCHANGED <<script_path, content, overflow_checks, scan_vars, name_vars, app_vars, snap_vars, last_op>>

NextParse == Extract

SpecParse == InitParse /\ [][NextParse]_vars

(***************************************************************************)
(* discover_vms over a library.                                            *)
(***************************************************************************)
Init ==
    /\ library \in Libraries
    /\ overflow_checks \in BOOLEAN
    /\ pc = "start"
    /\ next_entry = 0
    /\ vms = <<>>
    /\ scan_result = NotCalled
    /\ script_path = <<>>
    /\ content = <<>>
    /\ parsed = NotCalled
    /\ vm_id = <<>>
    /\ shown = NotCalled
    /\ app = NoApp
    /\ apply_result = NotCalled
    /\ output = <<>>
    /\ snapshots = NotCalled
    /\ last_op = NotCalled

\* Lines 44-51: a missing root is an empty library, an unreadable one an error.
StartScan ==
    /\ pc = "start"
    /\ IF library.root = "Missing"
       THEN pc' = "done" /\ scan_result' = Ok(<<>>) /\ UNCHANGED next_entry
       ELSE IF library.root = "Unreadable"
       THEN pc' = "done" /\ scan_result' = Err("Failed to read VM library")
            /\ UNCHANGED next_entry
       ELSE pc' = "loop" /\ next_entry' = 1 /\ UNCHANGED scan_result
    /\ UNCHANGED <<library, vms, overflow_checks, parse_vars, name_vars, app_vars, snap_vars, last_op>>

CurrentEntry == library.entries[next_entry]
InLoop == pc = "loop" /\ next_entry <= Len(library.entries)

\* Line 54: `let entry = entry?;`
EntryError ==
    /\ InLoop
    /\ CurrentEntry.kind = "Error"
    /\ pc' = "done"
    /\ scan_result' = Err("io error")
    /\ UNCHANGED <<library, next_entry, vms, overflow_checks, parse_vars, name_vars, app_vars, snap_vars, last_op>>

\* Lines 57-64: the two `continue`s.
SkipEntry ==
    /\ InLoop
    /\ CurrentEntry.kind \in {"File", "Dir", "DirNested"}
    /\ next_entry' = next_entry + 1
    /\ UNCHANGED <<library, pc, vms, scan_result, overflow_checks, parse_vars, name_vars, app_vars, snap_vars, last_op>>

\* Lines 61-92: a directory that holds launch.sh.
ProcessVm ==
    /\ InLoop
    /\ CurrentEntry.kind \in {"Vm", "VmUnreadable"}
    /\ LET path == path_join(LibraryPath, CurrentEntry.name)
           launch_script == path_join(path, Chars("launch.sh"))
           \* read_to_string(..).unwrap_or_default()
           script_content == IF CurrentEntry.kind = "Vm" THEN CurrentEntry.script ELSE <<>>
           got == extract(launch_script, script_content, overflow_checks)
       IN /\ script_path' = launch_script
          /\ content' = script_content
          /\ parsed' = got
          /\ IF got = Panicked
             THEN pc' = "panicked" /\ scan_result' = Panicked /\ UNCHANGED <<next_entry, vms>>
             ELSE /\ vms' = Append(vms, vm_record(CurrentEntry, overflow_checks).val)
                  /\ next_entry' = next_entry + 1
                  /\ UNCHANGED <<pc, scan_result>>
    /\ UNCHANGED <<library, overflow_checks, name_vars, app_vars, snap_vars, last_op>>

\* Lines 95-98: sort and return.
FinishScan ==
    /\ pc = "loop"
    /\ next_entry > Len(library.entries)
    /\ vms' = sort_by_display_name(vms)
    /\ scan_result' = Ok(vms')
    /\ pc' = "done"
    /\ UNCHANGED <<library, next_entry, overflow_checks, parse_vars, name_vars, app_vars, snap_vars, last_op>>

Next == StartScan \/ EntryError \/ SkipEntry \/ ProcessVm \/ FinishScan

Spec == Init /\ [][Next]_vars

(***************************************************************************)
(* The extractor called on scripts that name emulators.                    *)
(***************************************************************************)
\* One invocation line per emulator name, and what may stand before a line.
EmulatorFragments ==
    {emulators[i] \o Chars(" -m 512\n") : i \in DOMAIN emulators}
    \cup {Chars("#!/bin/sh\n"), Chars("# "), Chars("exec ")}

EmulatorScripts ==
    {Concat(fs) : fs \in UNION {[1..n -> EmulatorFragments] : n \in 0..MaxFrags}}

InitEmulator ==
    /\ script_path = Chars("/l/w-95/launch.sh")
    /\ content \in EmulatorScripts
    /\ overflow_checks = FALSE
    /\ parsed = NotCalled
    /\ library = NoLibrary
    /\ pc = "idle"
    /\ next_entry = 0
    /\ vms = <<>>
    /\ scan_result = NotCalled
    /\ vm_id = <<>>
    /\ shown = NotCalled
    /\ app = NoApp
    /\ apply_result = NotCalled
    /\ output = <<>>
    /\ snapshots = NotCalled
    /\ last_op = NotCalled

SpecEmulator == InitEmulator /\ [][NextParse]_vars

(***************************************************************************)
(* The extractor called on scripts made of feature lines.                  *)
(***************************************************************************)
FeatureFragments ==
    { Chars("qemu-system-i386 \\\n"), Chars(" -enable-kvm \\\n"), Chars(" -accel kvm\n"),
      Chars(" -bios b.bin\n"), Chars(" -bios efi.fd\n"), Chars(" -hda efi.img\n"),
      Chars(" -pflash OVMF.fd\n"), Chars(" -tpmdev emulator\n"), Chars("swtpm socket\n"),
      Chars("# ") }

FeatureScripts ==
    {Concat(fs) : fs \in UNION {[1..n -> FeatureFragments] : n \in 0..MaxFrags}}

InitFeature ==
    /\ script_path = Chars("/l/w-95/launch.sh")
    /\ content \in FeatureScripts
    /\ overflow_checks = FALSE
    /\ parsed = NotCalled
    /\ library = NoLibrary
    /\ pc = "idle"
    /\ next_entry = 0
    /\ vms = <<>>
    /\ scan_result = NotCalled
    /\ vm_id = <<>>
    /\ shown = NotCalled
    /\ app = NoApp
    /\ apply_result = NotCalled
    /\ output = <<>>
    /\ snapshots = NotCalled
    /\ last_op = NotCalled

SpecFeature == InitFeature /\ [][NextParse]_vars

(***************************************************************************)
(* The extractor called on scripts made of network lines.                  *)
(***************************************************************************)
NetworkFragments ==
    { Chars("qemu-system-i386 \\\n"), Chars("# "),
      Chars(" -net nic,model=rtl8139 \\\n"), Chars(" -nic user,model=pcnet\n"),
      Chars(" -nic user,model=virtio\n"), Chars(" -netdev user,id=n0\n"),
      Chars(" -net user\n"), Chars(" -net bridge,br=virbr-1\n"),
      Chars(" -nic bridge,br=br0.10,model=e1000\n"), Chars(" -netdev bridge,id=n1\n") }

NetworkScripts ==
    {Concat(fs) : fs \in UNION {[1..n -> NetworkFragments] : n \in 0..MaxFrags}}

InitNetwork ==
    /\ script_path = Chars("/l/w-95/launch.sh")
    /\ content \in NetworkScripts
    /\ overflow_checks = FALSE
    /\ parsed = NotCalled
    /\ library = NoLibrary
    /\ pc = "idle"
    /\ next_entry = 0
    /\ vms = <<>>
    /\ scan_result = NotCalled
    /\ vm_id = <<>>
    /\ shown = NotCalled
    /\ app = NoApp
    /\ apply_result = NotCalled
    /\ output = <<>>
    /\ snapshots = NotCalled
    /\ last_op = NotCalled

SpecNetwork == InitNetwork /\ [][NextParse]_vars

(***************************************************************************)
(* The extractor called on scripts with one disk flag.                     *)
(***************************************************************************)
DiskFlags == {Chars(" -hda "), Chars(" -hdc "), Chars(" -drive file=")}

DiskPaths == {Chars("a.img"), Chars("b c.img"), Chars("d.qcow2")}

Quotes == {"\"", "'", ""}

\* What follows the path argument on its line.
DiskTails == {<<>>, Chars(" -m 512"), Chars(",if=virtio"), Chars(" \\\n -smp 2")}

Quoted(path, quote) == IF quote = "" THEN path ELSE <<quote>> \o path \o <<quote>>

DiskScript(flag, path, quote, tail) ==
    Chars("qemu-system-i386") \o flag \o Quoted(path, quote) \o tail

DiskScripts ==
    {DiskScript(flag, path, quote, tail) :
        flag \in DiskFlags, path \in DiskPaths, quote \in Quotes, tail \in DiskTails}

InitDisk ==
    /\ script_path = Chars("/l/w-95/launch.sh")
    /\ content \in DiskScripts
    /\ overflow_checks = FALSE
    /\ parsed = NotCalled
    /\ library = NoLibrary
    /\ pc = "idle"
    /\ next_entry = 0
    /\ vms = <<>>
    /\ scan_result = NotCalled
    /\ vm_id = <<>>
    /\ shown = NotCalled
    /\ app = NoApp
    /\ apply_result = NotCalled
    /\ output = <<>>
    /\ snapshots = NotCalled
    /\ last_op = NotCalled

SpecDisk == InitDisk /\ [][NextParse]_vars

(***************************************************************************)
(* DiscoveredVm::display_name called on one record.                        *)
(***************************************************************************)
\* Directory names: non-empty, of letters, digits, hyphens, underscores and blanks.
IdChars == {"a", "B", "9", "-", "_", " "}

Ids == UNION {[1..n -> IdChars] : n \in 1..MaxIdLen}

InitName ==
    /\ vm_id \in Ids
    /\ shown = NotCalled
    /\ app = NoApp
    /\ apply_result = NotCalled
    /\ script_path = <<>>
    /\ content = <<>>
    /\ overflow_checks = FALSE
    /\ parsed = NotCalled
    /\ library = NoLibrary
    /\ pc = "idle"
    /\ next_entry = 0
    /\ vms = <<>>
    /\ scan_result = NotCalled
    /\ output = <<>>
    /\ snapshots = NotCalled
    /\ last_op = NotCalled

DisplayName ==
    /\ shown = NotCalled
    /\ vm_id # <<>>
    /\ shown' = Returned(display_name(vm_id))
    /\ UNCHANGED <<vm_id, overflow_checks, parse_vars, scan_vars, app_vars, snap_vars, last_op>>

NextName == DisplayName

SpecName == InitName /\ [][NextName]_vars

(***************************************************************************)
(* The network settings screen, open on the selected VM; Enter applies.    *)
(***************************************************************************)
ApplyScripts ==
    { Chars("qemu-system-i386 -m 512"),
      Chars("#!/bin/sh\n# old pc\nqemu-system-i386 \\\n -hda a.img\n"),
      Chars("qemu-system-ppc -nic user,model=e1000 -m 512\n"),
      Chars("echo hello\n") }

\* The VM directories, in the one order the file system enumerates them.
ApplyNames == <<Chars("dos"), Chars("Mac")>>

ApplyLibraries ==
    {[root |-> "Ok",
      entries |-> [i \in 1..n |-> [name |-> ApplyNames[i], kind |-> "Vm", script |-> ss[i]]]] :
        n \in 0..Min({MaxEntries, Len(ApplyNames)}), ss \in [1..Len(ApplyNames) -> ApplyScripts]}

Queries == {<<>>, Chars("d")}

PortForwardLists ==
    {<<>>, <<[protocol |-> Chars("tcp"), host_port |-> 2222, guest_port |-> 22]>>}

\* What the screen can hold when Enter is pressed: any adapter model of the cycle,
\* and a backend with the field that goes with it.
SettingsStates ==
    {[model |-> NETWORK_OPTIONS[m], backend |-> Chars("user"), bridge_name |-> None,
      port_forwards |-> <<>>] : m \in DOMAIN NETWORK_OPTIONS}
    \cup {[model |-> NETWORK_OPTIONS[1], backend |-> Chars("user"), bridge_name |-> None,
           port_forwards |-> pfs] : pfs \in PortForwardLists}
    \cup {[model |-> NETWORK_OPTIONS[m], backend |-> Chars("bridge"),
           bridge_name |-> Some(Chars("br0")), port_forwards |-> <<>>] : m \in {1, 3}}

\* App::new followed by a search, a selection and the opening of the screen.
App_new(found, query) ==
    update_filter([kind |-> "App", vms |-> found, selected_vm |-> 0,
                   filtered_indices |-> index_range(Len(found)), search_query |-> query,
                   status_message |-> None, network_settings_state |-> None,
                   screen |-> "MainMenu", screen_stack |-> <<>>])

InitApply ==
    /\ library \in ApplyLibraries
    /\ overflow_checks = FALSE
    /\ \E found \in {discover_vms(library, FALSE)}, query \in Queries, ns \in SettingsStates :
          /\ found.kind = "Ok"
          /\ \E a \in {App_new(found.val, query)} :
                \E sel \in 0..Max({0, Len(a.filtered_indices) - 1}) :
                   app = [a EXCEPT !.selected_vm = sel,
                                   !.network_settings_state = Some(ns),
                                   !.screen = "NetworkSettings",
                                   !.screen_stack = <<"MainMenu", "Management">>]
    /\ apply_result = NotCalled
    /\ script_path = <<>>
    /\ content = <<>>
    /\ parsed = NotCalled
    /\ pc = "idle"
    /\ next_entry = 0
    /\ vms = <<>>
    /\ scan_result = NotCalled
    /\ vm_id = <<>>
    /\ shown = NotCalled
    /\ output = <<>>
    /\ snapshots = NotCalled
    /\ last_op = NotCalled

\* KeyCode::Enter outside the port-forward field: apply_network_settings(app)?
ApplyNetworkSettings ==
    /\ apply_result = NotCalled
    /\ app # NoApp
    /\ app.network_settings_state.some
    /\ \E io_ok \in BOOLEAN, root_now \in {"Ok", "Unreadable"} :
          LET ns == app.network_settings_state.val
              vm_path == IF selected_vm(app).some THEN selected_vm(app).val.path ELSE <<>>
          IN \E upd \in {update_network_in_script(library, vm_path, ns.model, ns.backend,
                                                   ns.bridge_name, ns.port_forwards, io_ok)} :
             \E found \in {discover_vms([upd.lib EXCEPT !.root = root_now], overflow_checks)} :
             \E done \in {apply_network_settings(app, upd, found)} :
                /\ apply_result' = [kind |-> done.result.kind, rescanned |-> done.rescanned]
                /\ app' = done.app
                /\ library' = IF selected_vm(app).some THEN upd.lib ELSE library
    /\ UNCHANGED <<overflow_checks, parse_vars, pc, next_entry, vms, scan_result, name_vars, snap_vars, last_op>>

NextApply == ApplyNetworkSettings

SpecApply == InitApply /\ [][NextApply]_vars

(***************************************************************************)
(* parse_snapshot_list called on one output of `qemu-img snapshot -l`.     *)
(***************************************************************************)
SnapshotLines ==
    { Chars("Snapshot list:\n"),
      Chars("ID        TAG        VM SIZE       DATE       VM CLOCK\n"),
      Chars("1         fresh      512M 2024-01-15 10:30:45   00:05:30.123\n"),
      Chars("  2       after      768M 2024-01-16 14:20:00   00:15:45.456\r\n"),
      Chars("3 short 1M 2024-01-17\n"),
      Chars("qemu-img: warning\n"),
      Chars("\n") }

SnapshotOutputs ==
    {Concat(ls) : ls \in UNION {[1..n -> SnapshotLines] : n \in 0..MaxLines}}

InitSnapshot ==
    /\ output \in SnapshotOutputs
    /\ snapshots = NotCalled
    /\ last_op = NotCalled
    /\ script_path = <<>>
    /\ content = <<>>
    /\ overflow_checks = FALSE
    /\ parsed = NotCalled
    /\ library = NoLibrary
    /\ pc = "idle"
    /\ next_entry = 0
    /\ vms = <<>>
    /\ scan_result = NotCalled
    /\ vm_id = <<>>
    /\ shown = NotCalled
    /\ app = NoApp
    /\ apply_result = NotCalled

ParseSnapshotList ==
    /\ snapshots = NotCalled
    /\ pc = "idle"
    /\ app = NoApp
    /\ snapshots' = parse_snapshot_list(output)
    /\ UNCHANGED <<output, overflow_checks, parse_vars, scan_vars, name_vars, app_vars, last_op>>

NextSnapshot == ParseSnapshotList

SpecSnapshot == InitSnapshot /\ [][NextSnapshot]_vars

(***************************************************************************)
(* The VM list of the App: selection, search and refresh, while the        *)
(* library changes on disk.                                                *)
(***************************************************************************)
BrowseScripts ==
    { Chars("qemu-system-i386 -m 512"), Chars("qemu-system-ppc -nic user,model=e1000 -m 512\n") }

BrowseNames == <<Chars("dos"), Chars("Mac"), Chars("w-95")>>

BrowseLibraries ==
    {[root |-> "Ok",
      entries |-> [i \in 1..n |-> [name |-> BrowseNames[i], kind |-> "Vm", script |-> ss[i]]]] :
        n \in 0..Min({MaxEntries, Len(BrowseNames)}), ss \in [1..Len(BrowseNames) -> BrowseScripts]}
    \cup {[root |-> "Unreadable", entries |-> <<>>]}

BrowseQueries == {<<>>, Chars("d"), Chars("x")}

InitBrowse ==
    /\ library \in BrowseLibraries
    /\ overflow_checks = FALSE
    /\ \E found \in {discover_vms(library, FALSE)} :
          /\ found.kind = "Ok"
          /\ app = App_new(found.val, <<>>)
    /\ last_op = NotCalled
    /\ apply_result = NotCalled
    /\ script_path = <<>>
    /\ content = <<>>
    /\ parsed = NotCalled
    /\ pc = "idle"
    /\ next_entry = 0
    /\ vms = <<>>
    /\ scan_result = NotCalled
    /\ vm_id = <<>>
    /\ shown = NotCalled
    /\ output = <<>>
    /\ snapshots = NotCalled

browse_frame == <<overflow_checks, parse_vars, pc, next_entry, vms, scan_result, name_vars,
                  apply_result, snap_vars>>

SelectPrev ==
    /\ app # NoApp
    /\ app' = select_prev(app)
    /\ last_op' = [kind |-> "select_prev", result |-> "Ok"]
    /\ UNCHANGED <<library, browse_frame>>

SelectNext ==
    /\ app # NoApp
    /\ app' = select_next(app)
    /\ last_op' = [kind |-> "select_next", result |-> "Ok"]
    /\ UNCHANGED <<library, browse_frame>>

\* The search box: the query is replaced, then update_filter runs.
UpdateFilter ==
    /\ app # NoApp
    /\ \E query \in BrowseQueries :
          app' = update_filter([app EXCEPT !.search_query = query])
    /\ last_op' = [kind |-> "update_filter", result |-> "Ok"]
    /\ UNCHANGED <<library, browse_frame>>

RefreshVms ==
    /\ app # NoApp
    /\ \E found \in {discover_vms(library, overflow_checks)} :
       \E done \in {refresh_vms(app, found)} :
          /\ app' = done.app
          /\ last_op' = [kind |-> "refresh_vms", result |-> done.result]
    /\ UNCHANGED <<library, browse_frame>>

\* Somebody adds, removes or edits VM directories, or makes the library unreadable.
LibraryChanges ==
    /\ app # NoApp
    /\ library' \in BrowseLibraries \ {library}
    /\ UNCHANGED <<app, last_op, browse_frame>>

NextBrowse == SelectPrev \/ SelectNext \/ UpdateFilter \/ RefreshVms \/ LibraryChanges

SpecBrowse == InitBrowse /\ [][NextBrowse]_vars

(***************************************************************************)
(* Keys on the network settings screen.                                    *)
(***************************************************************************)
\* The capabilities detected on the host: the backends offered and the bridges found.
NetworkCaps ==
    { [backends |-> <<Chars("user"), Chars("none")>>, system_bridges |-> <<>>],
      [backends |-> <<Chars("user"), Chars("passt"), Chars("bridge"), Chars("none")>>,
       system_bridges |-> <<>>],
      [backends |-> <<Chars("user"), Chars("bridge"), Chars("none")>>,
       system_bridges |-> <<Chars("br0"), Chars("virbr0")>>] }

\* The screen as it is opened on a VM.
OpenedSettings(model, backend, bridge_name, port_forwards) ==
    [model |-> model, backend |-> backend, bridge_name |-> bridge_name,
     port_forwards |-> port_forwards, selected_field |-> 0,
     editing_port_forwards |-> FALSE, pf_selected |-> 0, adding_pf |-> None]

SettingsApp(ns, caps) ==
    [kind |-> "App", vms |-> <<>>, selected_vm |-> 0, filtered_indices |-> <<>>,
     search_query |-> <<>>, status_message |-> None,
     network_settings_state |-> Some(ns), network_caps |-> caps,
     screen |-> "NetworkSettings", screen_stack |-> <<"MainMenu", "Management">>]

settings_frame == <<library, overflow_checks, parse_vars, pc, next_entry, vms, scan_result,
                    name_vars, apply_result, snap_vars, last_op>>

SettingsIdle ==
    /\ library = NoLibrary
    /\ overflow_checks = FALSE
    /\ last_op = NotCalled
    /\ apply_result = NotCalled
    /\ script_path = <<>>
    /\ content = <<>>
    /\ parsed = NotCalled
    /\ pc = "idle"
    /\ next_entry = 0
    /\ vms = <<>>
    /\ scan_result = NotCalled
    /\ vm_id = <<>>
    /\ shown = NotCalled
    /\ output = <<>>
    /\ snapshots = NotCalled

Settings == app.network_settings_state.val

\* Field navigation and cycling.
InitFields ==
    /\ \E caps \in NetworkCaps,
          start \in {<<Chars("user"), None>>, <<Chars("none"), None>>,
                     <<Chars("bridge"), Some(Chars("br0"))>>} :
          app = SettingsApp(OpenedSettings(Chars("e1000"), start[1], start[2], <<>>), caps)
    /\ SettingsIdle

FieldKeys == {"j", "k", "Up", "Down", "Left", "Right", "x"}

FieldKey ==
    /\ app # NoApp
    /\ app.network_settings_state.some
    /\ \E key \in FieldKeys :
          /\ ~enters_apply(app, key)
          /\ app' = handle_key(app, key)
    /\ UNCHANGED settings_frame

NextFields == FieldKey

SpecFields == InitFields /\ [][NextFields]_vars

\* The port-forward editor: the screen stands on the port-forward field of a user
\* backend; Enter opens the editor, and outside the editor no other key is pressed.
InitEditor ==
    /\ \E caps \in NetworkCaps,
          pfs \in {<<PortForward(Tcp, 8080, 80)>>} :
          app = SettingsApp([OpenedSettings(Chars("e1000"), Chars("user"), None, pfs)
                                EXCEPT !.selected_field = 2], caps)
    /\ SettingsIdle

EditorKeys == {"Enter", "Esc", "a", "j", "k", "d", "Delete", "1", "Left"}

\* The lengths the explored session stays within.
Within(a, rules, digits) ==
    a.network_settings_state.some
    => /\ Len(a.network_settings_state.val.port_forwards) <= rules
       /\ a.network_settings_state.val.adding_pf.some
            => /\ Len(a.network_settings_state.val.adding_pf.val.host_port_input) <= digits
               /\ Len(a.network_settings_state.val.adding_pf.val.guest_port_input) <= digits

EditorKey ==
    /\ app # NoApp
    /\ app.network_settings_state.some
    /\ \E key \in EditorKeys :
          /\ Settings.editing_port_forwards \/ key = "Enter"
          /\ ~enters_apply(app, key)
          /\ Within(handle_key(app, key), MaxRules, MaxEditorDigits)
          /\ app' = handle_key(app, key)
    /\ UNCHANGED settings_frame

NextEditor == EditorKey

SpecEditor == InitEditor /\ [][NextEditor]_vars

\* The add-port-forward dialog: the editor is open on an empty list.
InitAddPf ==
    /\ \E caps \in NetworkCaps :
          app = SettingsApp([OpenedSettings(Chars("e1000"), Chars("user"), None, <<>>)
                                EXCEPT !.selected_field = 2,
                                       !.editing_port_forwards = TRUE], caps)
    /\ SettingsIdle

DialogKeys == {"Enter", "Esc", "a", "Left", "Right", "6", "Backspace", "x"}

DialogKey ==
    /\ app # NoApp
    /\ app.network_settings_state.some
    /\ \E key \in DialogKeys :
          /\ Settings.editing_port_forwards \/ key = "Enter"
          /\ ~enters_apply(app, key)
          /\ Within(handle_key(app, key), MaxAdded, MaxPortDigits)
          /\ app' = handle_key(app, key)
    /\ UNCHANGED settings_frame

NextAddPf == DialogKey

SpecAddPf == InitAddPf /\ [][NextAddPf]_vars

(***************************************************************************)
(* Properties.                                                             *)
(***************************************************************************)
HasReturned == parsed.kind = "Return"
Extracted == parsed.val.config

\* Every 0-based offset at which p occurs in s.
Occurrences(s, p) == {i \in 0..(Len(s) - Len(p)) : SubSeq(s, i + 1, i + Len(p)) = p}

VmDirOf(path) == IF path_parent(path).some THEN path_parent(path).val ELSE <<".">>

\* The graphics-adapter flags of a script: <<line, offset>> of every `-vga ` on a
\* non-comment line that is followed by a token.
VgaToken(c, site) ==
    take_while_not(SliceFrom(lines(c)[site[1]], site[2] + 5), Whitespace \cup {"\\"})

VgaFlags(c) ==
    {site \in UNION {{<<l, i>> : i \in Occurrences(lines(c)[l], Chars("-vga "))} :
                        l \in DOMAIN lines(c)} :
        ~is_comment(lines(c)[site[1]]) /\ VgaToken(c, site) # <<>>}

LastSite(sites) ==
    CHOOSE s \in sites : \A t \in sites : t[1] < s[1] \/ (t[1] = s[1] /\ t[2] <= s[2])

\* C1: with two or more -vga flags on non-comment lines, the extracted graphics
\* adapter is the variant named by the last flag in script order.
C1_LastVgaWins ==
    (HasReturned /\ Cardinality(VgaFlags(content)) >= 2)
        => Extracted.vga = VgaType_from_str(VgaToken(content, LastSite(VgaFlags(content))))

\* The disks one line contributes, each with the offset at which its flag stands.
DiskSitesOfLine(line, vm_dir) ==
    IF is_comment(line) THEN {}
    ELSE {[at |-> find(line, <<"-">> \o hd_flags[h] \o <<" ">>),
           disk |-> legacy_disk(line, hd_flags[h], vm_dir)[1]] :
             h \in {k \in DOMAIN hd_flags : legacy_disk(line, hd_flags[k], vm_dir) # <<>>}}
         \cup (IF drive_disk(line, vm_dir) = <<>> THEN {}
               ELSE {[at |-> find(line, Chars("-drive")), disk |-> drive_disk(line, vm_dir)[1]]})

RECURSIVE InOffsetOrder(_)
InOffsetOrder(sites) ==
    IF sites = {} THEN <<>>
    ELSE LET first == CHOOSE s \in sites : \A t \in sites : s.at <= t.at
         IN <<first.disk>> \o InOffsetOrder(sites \ {first})

DisksInTextOrder(c, vm_dir) ==
    Concat([l \in DOMAIN lines(c) |-> InOffsetOrder(DiskSitesOfLine(lines(c)[l], vm_dir))])

\* C2: the extracted disks are in the order in which their flags appear in the script
\* text, across lines and within one line, for any mix of -hdX and -drive flags.
C2_DisksInTextOrder ==
    HasReturned => Extracted.disks = DisksInTextOrder(content, VmDirOf(script_path))

\* C3: a script that contains none of `-net nic`, `-netdev`, `-nic` has no network.
C3_NoNetworkFlagNoNetwork ==
    (HasReturned /\ ~contains(content, Chars("-net nic")) /\ ~contains(content, Chars("-netdev"))
        /\ ~contains(content, Chars("-nic")))
        => Extracted.network = None

\* The script is nothing but `-m <digits>` or `-m <digits>G` (blanks around it aside),
\* the digits being a u32.
BareMemoryDigits(c) ==
    IF starts_with(trim(c), Chars("-m ")) THEN take_while_in(SliceFrom(trim(c), 3), Digit)
    ELSE <<>>

IsBareMemoryFlag(c) ==
    /\ parse_u32(BareMemoryDigits(c)).some
    /\ SliceFrom(trim(c), 3 + Len(BareMemoryDigits(c))) \in {<<>>, <<"G">>}

\* The exact value of n * 1024 (its high limb is not cut to 16 bits).
Times1024(n) == mul_add(n, 1024, 0)

\* C4: `-m n` gives n * 1024 megabytes when n < 64 and n when n >= 64; `-m nG` gives
\* n * 1024.
C4_MemoryUnits ==
    (parsed # NotCalled /\ IsBareMemoryFlag(content))
        => /\ HasReturned
           /\ LET n == parse_u32(BareMemoryDigits(content)).val
                  suffixed == trim(content)[Len(trim(content))] = "G"
              IN Extracted.memory_mb =
                    IF suffixed \/ u32_lt(n, u32(64)) THEN Times1024(n) ELSE n

\* The memory token the extractor reads: on the first non-comment line that has a
\* `-m ` followed by a u32, the digits and the character right after them.
MemoryLines(c) ==
    {l \in DOMAIN lines(c) :
        /\ ~is_comment(lines(c)[l])
        /\ contains(lines(c)[l], Chars("-m "))
        /\ parse_u32(take_while_in(SliceFrom(lines(c)[l], find(lines(c)[l], Chars("-m ")) + 3),
                                   Digit)).some}

MemoryRest(c) ==
    LET line == lines(c)[Min(MemoryLines(c))]
    IN SliceFrom(line, find(line, Chars("-m ")) + 3)

MemoryTokenHasG(c) ==
    LET rest == MemoryRest(c)
        n == Len(take_while_in(rest, Digit))
    IN Len(rest) > n /\ rest[n + 1] = "G"

\* C5: a memory value n >= 64 whose token carries no G suffix is taken as n megabytes,
\* whatever else follows on the line.
C5_SuffixOnTokenOnly ==
    (HasReturned /\ MemoryLines(content) # {})
        => LET n == parse_u32(take_while_in(MemoryRest(content), Digit)).val
           IN (~u32_lt(n, u32(64)) /\ ~MemoryTokenHasG(content)) => Extracted.memory_mb = n

\* C6: the config parse_launch_script returns carries the content it was given, and
\* the config of discovery's error branch carries the script text that was read.
C6_RawScriptKept ==
    /\ HasReturned => Extracted.raw_script = content
    /\ match_parse_result(Err("e"), content).config.raw_script = content

C6_Witness == HasReturned /\ content # <<>> /\ Extracted.raw_script = content

\* No non-comment line of the script has a memory, core-count or graphics flag.
NoTuningFlags(c) ==
    LET ls == lines(c)
    IN \A l \in DOMAIN ls :
          is_comment(ls[l])
          \/ (/\ ~contains(ls[l], Chars("-m "))
              /\ ~contains(ls[l], Chars("-smp "))
              /\ ~contains(ls[l], Chars("-vga ")))

\* C8: a script without memory, core-count and graphics flags is extracted with
\* success, without an error, and with the default memory, cores and adapter.
C8_DefaultsAndSuccess ==
    (parsed # NotCalled /\ NoTuningFlags(content))
        => /\ HasReturned
           /\ parsed.val.parse_success
           /\ parsed.val.parse_error = None
           /\ Extracted.memory_mb = QemuConfig_default.memory_mb
           /\ Extracted.cpu_cores = QemuConfig_default.cpu_cores
           /\ Extracted.vga = QemuConfig_default.vga

C8_Witness ==
    /\ HasReturned
    /\ NoTuningFlags(content)
    /\ contains(content, Chars("-hda "))
    /\ parsed.val.parse_success
    /\ Extracted.memory_mb = QemuConfig_default.memory_mb

\* C9: parse_launch_script returns to its caller for every path and content.
C9_NeverPanics == parsed.kind # "Panic"

\* The records the caller of discover_vms receives.
Returned_vms == IF scan_result.kind = "Ok" THEN scan_result.val ELSE <<>>
ScanOver == pc \in {"done", "panicked"}

\* C7: a VM whose launch.sh exists but cannot be read is listed with
\* parse_success = false, an error text and a default-valued config.
C7_UnreadableIsMarked ==
    (pc = "done" /\ scan_result.kind = "Ok")
        => \A e \in DOMAIN library.entries :
              library.entries[e].kind = "VmUnreadable"
              => \E v \in DOMAIN Returned_vms :
                    /\ Returned_vms[v].id = library.entries[e].name
                    /\ ~Returned_vms[v].parse_success
                    /\ Returned_vms[v].parse_error.some
                    /\ Returned_vms[v].config = QemuConfig_default

\* The entry is a directory with a launch.sh whose own extraction returns.
IsListableVm(e) ==
    /\ e.kind \in {"Vm", "VmUnreadable"}
    /\ extract(path_join(path_join(LibraryPath, e.name), Chars("launch.sh")),
               e.script, overflow_checks) # Panicked

\* C10: whatever fails for one entry or one VM, the scan returns a record for every
\* other VM directory that has a launch script.
C10_ScanNeverAborts ==
    (ScanOver /\ library.root = "Ok")
        => \A e \in DOMAIN library.entries :
              IsListableVm(library.entries[e])
              => \E v \in DOMAIN Returned_vms : Returned_vms[v].id = library.entries[e].name

\* C11: the sequence discover_vms returns is in non-decreasing order of display_name(),
\* whatever the VM directories are and in whatever order they are enumerated.
C11_SortedByDisplayName ==
    (pc = "done" /\ scan_result.kind = "Ok")
        => \A i, j \in DOMAIN Returned_vms :
              i < j => str_le(display_name(Returned_vms[i].id), display_name(Returned_vms[j].id))

\* Two VMs that the file system enumerates in the reverse of their display-name order.
C11_Witness ==
    /\ pc = "done"
    /\ Len(Returned_vms) = 2
    /\ Len(library.entries) = 2
    /\ Returned_vms[1].id = library.entries[2].name
    /\ Returned_vms[2].id = library.entries[1].name

IsVmDirectory(e) == e.kind \in {"Vm", "VmUnreadable"}

\* C12: discover_vms returns exactly one record per immediate subdirectory that holds a
\* launch.sh, its id being the directory's name; plain files, directories without
\* launch.sh and scripts nested deeper give no record and no error.
C12_OneRecordPerVmDirectory ==
    (ScanOver /\ library.root = "Ok")
        => /\ Len(Returned_vms)
                = Cardinality({e \in DOMAIN library.entries : IsVmDirectory(library.entries[e])})
           /\ \A e \in DOMAIN library.entries :
                 IsVmDirectory(library.entries[e])
                 => Cardinality({v \in DOMAIN Returned_vms :
                                    Returned_vms[v].id = library.entries[e].name}) = 1
           /\ (\A e \in DOMAIN library.entries :
                    library.entries[e].kind \in {"File", "Dir", "DirNested"})
                 => scan_result.kind = "Ok"

\* The id with every hyphen turned into one blank and the first letter of every word
\* upper-cased, character by character: nothing is dropped or merged.
NameAsClaimed(id) ==
    [i \in DOMAIN id |->
        IF id[i] = "-" THEN " "
        ELSE IF i = 1 \/ id[i - 1] \in {"-", " "} THEN to_ascii_uppercase(id[i])
        ELSE id[i]]

\* C13: display_name() is the id with every separator replaced by a single space and
\* the first letter of every resulting word upper-cased, all other characters unchanged.
C13_SeparatorsToSpaces ==
    shown.kind = "Return" => shown.val = NameAsClaimed(vm_id)

\* One pass over the id: hyphens and white space end a word, a word's first character
\* is upper-cased, and one blank is written between two words.
RECURSIVE NameOfWords(_, _, _)
NameOfWords(id, in_word, any_word) ==
    IF id = <<>> THEN <<>>
    ELSE IF Head(id) \in Whitespace \cup {"-"} THEN NameOfWords(Tail(id), FALSE, any_word)
    ELSE (IF in_word THEN <<Head(id)>>
          ELSE (IF any_word THEN <<" ">> ELSE <<>>) \o <<to_ascii_uppercase(Head(id))>>)
         \o NameOfWords(Tail(id), TRUE, TRUE)

\* C13, amended: display_name() is the words of the id, joined by single blanks, each
\* with its first character upper-cased; runs of separators and blanks count once and
\* leading and trailing ones are dropped.
C13_WordsCapitalized ==
    shown.kind = "Return" => shown.val = NameOfWords(vm_id, FALSE, FALSE)

\* An id with a doubled separator and a lower-case second word.
C13_Witness ==
    /\ shown.kind = "Return"
    /\ vm_id = Chars("a--a")
    /\ shown.val = Chars("A A")

\* The path texts one line hands to resolve_path, in the order of its disks.
RawPathsOfLine(line) ==
    IF is_comment(line) THEN <<>>
    ELSE Concat([h \in DOMAIN hd_flags |->
                    LET pattern == <<"-">> \o hd_flags[h] \o <<" ">>
                        idx == find(line, pattern)
                        arg == extract_path_from_arg(SliceFrom(line, idx + Len(pattern)))
                    IN IF idx >= 0 /\ arg.some THEN <<arg.val>> ELSE <<>>])
         \o (IF contains(line, Chars("-drive")) /\ contains(line, Chars("file="))
                 /\ extract_drive_file(line).some
              THEN <<extract_drive_file(line).val>> ELSE <<>>)

RawPaths(c) == Concat([l \in DOMAIN lines(c) |-> RawPathsOfLine(lines(c)[l])])

UsesPlaceholder(raw) ==
    contains(raw, Chars("$DIR")) \/ contains(raw, Chars("${DIR}"))
        \/ contains(raw, Chars("$(dirname $0)"))

\* C14: every disk path of an extracted config is absolute; a path written with an
\* own-directory placeholder lies under the VM's directory, and a relative path is the
\* VM's directory joined with it, whatever script path the extractor is given.
C14_DiskPathsAbsolute ==
    HasReturned
        => /\ Len(Extracted.disks) = Len(RawPaths(content))
           /\ \A d \in DOMAIN Extracted.disks :
                 LET raw == RawPaths(content)[d]
                     vm_dir == VmDirOf(script_path)
                 IN /\ is_absolute(Extracted.disks[d].path)
                    /\ UsesPlaceholder(raw)
                         => starts_with(Extracted.disks[d].path, vm_dir \o <<"/">>)
                    /\ (~UsesPlaceholder(raw) /\ ~is_absolute(raw))
                         => Extracted.disks[d].path = vm_dir \o <<"/">> \o raw

\* The step is a call of apply_network_settings on a selected VM that returned Ok.
AppliedOk ==
    /\ apply_result = NotCalled
    /\ apply_result'.kind = "Ok"
    /\ selected_vm(app).some

\* The text of the selected VM's launch.sh after the step.
ScriptAfter == library'.entries[entry_of(library', selected_vm(app).val.path)].script
ScriptBefore == library.entries[entry_of(library, selected_vm(app).val.path)].script

SelectableModels == {NETWORK_OPTIONS[m] : m \in 1..5}

\* C15: for each adapter model the settings screen can select (virtio, e1000, rtl8139,
\* ne2k_pci, pcnet), writing it into the script and extracting the script again gives
\* a NetworkConfig whose model is the value written.
C15_ModelRoundTrip ==
    [][(AppliedOk /\ app.network_settings_state.val.model \in SelectableModels)
          => /\ extract_network(ScriptAfter).some
             /\ extract_network(ScriptAfter).val.model = app.network_settings_state.val.model]_vars

WrittenClause ==
    LET ns == app.network_settings_state.val
    IN network_clause(ns.model, ns.backend, ns.bridge_name, ns.port_forwards)

\* C16: rewriting the network settings of a script without a network clause puts the
\* new clause right before the line that invokes the emulator, and every other line
\* of the script is the same, byte for byte, before and after.
C16_InsertedBeforeEmulatorLine ==
    [][(AppliedOk /\ extract_network(ScriptBefore) = None)
          => LET before == lines(ScriptBefore)
                 after == lines(ScriptAfter)
             IN \E k \in DOMAIN before :
                   /\ extract_emulator(before[k]).some
                   /\ \A j \in 1..(k - 1) : ~extract_emulator(before[j]).some
                   /\ after = SubSeq(before, 1, k - 1) \o <<WrittenClause>>
                                 \o SubSeq(before, k, Len(before))
                   /\ \E at \in 0..Len(ScriptBefore) :
                         ScriptAfter = SubSeq(ScriptBefore, 1, at) \o WrittenClause \o <<"\n">>
                                          \o SliceFrom(ScriptBefore, at)]_vars

\* A script of four lines has taken the clause as its third line, before the line
\* that invokes the emulator.
C16_Witness ==
    /\ apply_result.kind = "Ok"
    /\ \E e \in DOMAIN library.entries :
          library.entries[e].script
            = Chars("#!/bin/sh\n# old pc\n-nic user,model=e1000\nqemu-system-i386 \\\n -hda a.img\n")

\* C17: when the rewrite called by apply_network_settings fails, the VM list, the filter
\* and the selection stay as they were, discover_vms is not called, and the status is
\* not set to 'Network settings updated'.
C17_FailedRewriteAppliesNothing ==
    [][(apply_result = NotCalled /\ apply_result'.kind = "Err")
          => /\ app'.vms = app.vms
             /\ app'.search_query = app.search_query
             /\ app'.filtered_indices = app.filtered_indices
             /\ app'.selected_vm = app.selected_vm
             /\ ~apply_result'.rescanned
             /\ app'.status_message # Some(Chars("Network settings updated"))]_vars

\* The rewrite found no anchor in the selected VM's script, or the write failed.
C17_Witness ==
    /\ apply_result.kind = "Err"
    /\ selected_vm(app).some
    /\ app.vms # <<>>

\* The script without its comment lines.
RECURSIVE KeepCode(_)
KeepCode(ls) ==
    IF ls = <<>> THEN <<>>
    ELSE (IF is_comment(Head(ls)) THEN <<>> ELSE <<Head(ls)>>) \o KeepCode(Tail(ls))

WithoutComments(c) == join(KeepCode(lines(c)), <<"\n">>)

ExtractedFields(cfg) ==
    <<cfg.emulator, cfg.memory_mb, cfg.cpu_cores, cfg.cpu_model, cfg.machine, cfg.vga,
      cfg.audio_devices, cfg.enable_kvm, cfg.uefi, cfg.tpm, cfg.disks, cfg.network,
      cfg.extra_args>>

\* C18: a line whose first non-blank character is # contributes to no extracted field:
\* the script and the script without its comment lines give the same emulator, memory,
\* cores, CPU model, machine, graphics, audio devices, boolean features, disks, network
\* and extra args.
C18_CommentsContributeNothing ==
    HasReturned
        => WithValue(parse_launch_script(script_path, WithoutComments(content), overflow_checks),
                     LAMBDA bare :
                        /\ bare # Panicked
                        /\ ExtractedFields(Extracted) = ExtractedFields(bare.val))

\* The emulator names the script mentions, as their places in the search order.
Mentioned(c) == {i \in DOMAIN emulators : Occurrences(c, emulators[i]) # {}}

EmulatorVariants == <<"X86_64", "I386", "Ppc", "M68k", "Arm", "Aarch64">>

\* C19: a script that mentions several of the six emulator names gets the emulator
\* whose name the search matches first; a script that mentions exactly one gets that
\* one (qemu-system-i386 gives I386, qemu-system-ppc gives Ppc); a script that mentions
\* none keeps the default emulator.
C19_FirstMatchedEmulator ==
    HasReturned
        => /\ Mentioned(content) = {} => Extracted.emulator = QemuConfig_default.emulator
           /\ \A i \in DOMAIN emulators :
                 Mentioned(content) = {i} => Extracted.emulator = EmulatorVariants[i]
           /\ Mentioned(content) # {}
                 => Extracted.emulator = EmulatorVariants[Min(Mentioned(content))]

\* The script invokes qemu-system-ppc and then qemu-system-i386; the search tries
\* qemu-system-i386 before qemu-system-ppc.
C19_Witness ==
    /\ HasReturned
    /\ content = Chars("qemu-system-ppc -m 512\nqemu-system-i386 -m 512\n")
    /\ Mentioned(content) = {2, 3}
    /\ Extracted.emulator = "I386"

\* The path text of a disk argument: what stands between the quotes, or for a bare
\* argument what stands before the next white space or backslash (before the next
\* comma too in a -drive option list, where the comma ends the file= value).
PathText(flag, path, quote, tail) ==
    IF quote # "" THEN path
    ELSE take_while_not(path \o tail,
                        Whitespace \cup {"\\"}
                          \cup (IF flag = Chars(" -drive file=") THEN {","} ELSE {}))

\* C20: in both disk syntaxes a path written double-quoted, single-quoted or bare gives
\* the same disk path, the text without the quotes; a bare path ends at the next white
\* space or backslash.
C20_QuotedOrBarePath ==
    HasReturned
        => \A flag \in DiskFlags, path \in DiskPaths, quote \in Quotes, tail \in DiskTails :
              content = DiskScript(flag, path, quote, tail)
              => /\ Len(Extracted.disks) = 1
                 /\ Extracted.disks[1].path
                      = VmDirOf(script_path) \o <<"/">> \o PathText(flag, path, quote, tail)

\* Some line of the script contains every one of the given substrings.
SomeLineHasAll(c, subs) ==
    \E i \in DOMAIN lines(c) : \A t \in subs : contains(lines(c)[i], t)

\* The triggers of each feature: a set of alternatives, each a set of substrings that
\* one line has to contain together.
AccelerationTriggers == {{Chars("-enable-kvm")}, {Chars("-accel kvm")}}
FirmwareTriggers == {{Chars("OVMF")}, {Chars("-bios"), Chars("efi")}}
TpmTriggers == {{Chars("-tpmdev")}, {Chars("swtpm")}}

Triggered(c, triggers) == \E subs \in triggers : SomeLineHasAll(c, subs)

\* C21: each of the three boolean features is true exactly when at least one line of
\* the script contains one of the feature's triggers, wherever that line stands, and
\* false when no line contains one.
C21_FeatureIffSomeLineTriggers ==
    HasReturned
        => /\ Extracted.enable_kvm = Triggered(content, AccelerationTriggers)
           /\ Extracted.uefi = Triggered(content, FirmwareTriggers)
           /\ Extracted.tpm = Triggered(content, TpmTriggers)

\* The value of an attribute of an option list: the text after `name=` up to the next
\* comma, white space or backslash.
AttributeValue(line, name) ==
    take_while_not(SliceFrom(line, find(line, name) + Len(name)),
                   Whitespace \cup {",", "\\"})

\* The lines of the script that are not comments and contain one of the substrings.
LinesWith(c, subs) ==
    {i \in DOMAIN lines(c) :
        /\ ~is_comment(lines(c)[i])
        /\ \E t \in subs : contains(lines(c)[i], t)}

NetworkFlags == {Chars("-net nic"), Chars("-netdev"), Chars("-nic")}

ModelLines(c) == LinesWith(c, NetworkFlags) \cap LinesWith(c, {Chars("model=")})

\* C22: when a network-introducing line carries a model= attribute, the adapter model
\* of the extracted NetworkConfig is the value of that attribute (of the last such
\* line, when there are several), whatever the value is.
C22_ModelIsAttributeValue ==
    HasReturned /\ ModelLines(content) # {}
        => /\ Extracted.network.some
           /\ Extracted.network.val.model
                = AttributeValue(lines(content)[Max(ModelLines(content))], Chars("model="))

UserLines(c) == LinesWith(c, {Chars("-net user"), Chars("user,")})
BridgeLines(c) == LinesWith(c, {Chars("-net bridge"), Chars("bridge,")})

\* The NAT flag the markers of the script call for: that of the later marker line.
NatAsMarked(c) ==
    IF BridgeLines(c) = {} THEN TRUE
    ELSE IF UserLines(c) = {} THEN FALSE
    ELSE Max(UserLines(c)) > Max(BridgeLines(c))

\* C23: in an extracted NetworkConfig the NAT flag is true when the script carries a
\* user-mode marker and false when it carries a bridge marker; with both, on different
\* lines, the later line decides; where a bridge marker decides and its line has a br=
\* attribute, the bridge name is the value of that attribute.
C23_NatFlagAndBridgeName ==
    (HasReturned /\ Extracted.network.some
       /\ UserLines(content) \cup BridgeLines(content) # {}
       /\ UserLines(content) \cap BridgeLines(content) = {})
        => /\ Extracted.network.val.user_net = NatAsMarked(content)
           /\ (~NatAsMarked(content)
                 /\ contains(lines(content)[Max(BridgeLines(content))], Chars("br=")))
                => Extracted.network.val.bridge
                     = Some(AttributeValue(lines(content)[Max(BridgeLines(content))],
                                           Chars("br=")))

\* What a discovery pass over the library as it is after the step returns.
FreshDiscovery == discover_vms(library', overflow_checks)

\* C24: after a network edit has been applied successfully, the VM list of the App is
\* the result of a fresh discovery and extraction pass over the library, the filtered
\* indices are those computed from that list, and the settings dialog is closed.
C24_AppliedEditRefreshesModel ==
    [][AppliedOk
        => /\ FreshDiscovery.kind = "Ok"
           /\ app'.vms = FreshDiscovery.val
           /\ app'.filtered_indices = update_filter(app').filtered_indices
           /\ app'.network_settings_state = None
           /\ app'.screen = app.screen_stack[Len(app.screen_stack)]]_vars

\* The step is a call of refresh_vms that returned Ok (the library changes between
\* calls only).
RefreshedOk ==
    /\ last_op'.kind = "refresh_vms"
    /\ last_op'.result = "Ok"
    /\ library' = library

\* The directory entries discovery makes records of.
VmEntries(lib) == {e \in DOMAIN lib.entries : IsVmDirectory(lib.entries[e])}

\* C25: after a successful refresh_vms the VM list holds one record per VM directory
\* the scan found, each with the config extracted from the text its launch.sh has now;
\* nothing of the previous list is kept.
C25_RefreshReplacesWholesale ==
    [][RefreshedOk
        => /\ Len(app'.vms) = Cardinality(VmEntries(library))
           /\ \A e \in VmEntries(library) :
                 \E i \in DOMAIN app'.vms :
                    /\ app'.vms[i].path = path_join(LibraryPath, library.entries[e].name)
                    /\ app'.vms[i].config.raw_script = library.entries[e].script
                    /\ app'.vms[i].config
                         = extract(app'.vms[i].launch_script, library.entries[e].script,
                                   overflow_checks).val.config]_vars

\* A refresh has returned Ok and the list holds the two VMs of the library, the first
\* of them with the network its script has now.
C25_Witness ==
    /\ last_op.kind = "refresh_vms"
    /\ last_op.result = "Ok"
    /\ Len(library.entries) = 2
    /\ Len(app.vms) = 2
    /\ app.vms[1].config.network.some

\* C27: every entry of filtered_indices is an index into vms, and selected_vm is below
\* the length of filtered_indices when that list is not empty and 0 when it is.
C27_SelectionWithinFilter ==
    app # NoApp
        => /\ \A k \in DOMAIN app.filtered_indices :
                 app.filtered_indices[k] \in 0..(Len(app.vms) - 1)
           /\ app.filtered_indices # <<>> => app.selected_vm \in 0..(Len(app.filtered_indices) - 1)
           /\ app.filtered_indices = <<>> => app.selected_vm = 0

\* select_next has just refused to move past the last of two listed VMs.
C27_Witness ==
    /\ last_op.kind = "select_next"
    /\ Len(app.vms) = 2
    /\ Len(app.filtered_indices) = 2
    /\ app.selected_vm = 1

\* The elements of a set of numbers, smallest first.
Ascending(S) ==
    [k \in 1..Cardinality(S) |-> CHOOSE i \in S : Cardinality({j \in S : j < i}) = k - 1]

HeaderLines(out) == {i \in DOMAIN lines(out) : is_header(trim(lines(out)[i]))}

\* The table rows: the lines after the first header line that are no header lines
\* and have at least five white-space separated fields.
TableRows(out) ==
    {i \in DOMAIN lines(out) \ HeaderLines(out) :
        /\ \E h \in HeaderLines(out) : h < i
        /\ Len(split_whitespace(lines(out)[i])) >= 5}

\* C26: parse_snapshot_list returns one Snapshot per table row, in input order, with
\* the row's first field as id and its second as name; lines before the header and
\* header lines give none.
C26_OneSnapshotPerRow ==
    snapshots # NotCalled
        => /\ snapshots.kind = "Ok"
           /\ Len(snapshots.val) = Cardinality(TableRows(output))
           /\ \A k \in DOMAIN snapshots.val :
                 LET fields == split_whitespace(lines(output)[Ascending(TableRows(output))[k]])
                 IN /\ snapshots.val[k].id = fields[1]
                    /\ snapshots.val[k].name = fields[2]

\* The output of the unit test, cut to the header and two rows.
C26_Witness ==
    /\ output = Chars("ID        TAG        VM SIZE       DATE       VM CLOCK\n")
                 \o Chars("1         fresh      512M 2024-01-15 10:30:45   00:05:30.123\n")
                 \o Chars("  2       after      768M 2024-01-16 14:20:00   00:15:45.456\r\n")
    /\ snapshots # NotCalled
    /\ Len(snapshots.val) = 2
    /\ snapshots.val[1].name = Chars("fresh")
    /\ snapshots.val[2].name = Chars("after")
    /\ snapshots.val[2].id = Chars("2")

\* C28: while the port-forward editor is open, pf_selected is an index into
\* port_forwards when the list is not empty and 0 when it is, so that the delete key
\* removes the highlighted rule.
C28_HighlightWithinRules ==
    (app # NoApp /\ app.network_settings_state.some /\ Settings.editing_port_forwards)
        => /\ Settings.port_forwards # <<>>
                => Settings.pf_selected \in 0..(Len(Settings.port_forwards) - 1)
           /\ Settings.port_forwards = <<>> => Settings.pf_selected = 0
           /\ (Settings.port_forwards # <<>> /\ ~Settings.adding_pf.some)
                => handle_key(app, "d").network_settings_state.val.port_forwards
                     = remove_at(Settings.port_forwards, Settings.pf_selected)

\* The rule the editor was opened with has been deleted and a preset added: only the
\* preset is left, highlighted.
C28_Witness ==
    /\ Settings.editing_port_forwards
    /\ ~Settings.adding_pf.some
    /\ Settings.port_forwards = <<PortForward(Tcp, 2222, 22)>>
    /\ Settings.pf_selected = 0

\* C29: selected_field is at most 2, it is 2 only while the backend is user, passt or
\* bridge, and the backend changes only in a step taken with selected_field = 1.
C29_FieldWithinBackend ==
    /\ [](/\ Settings.selected_field \in 0..2
          /\ Settings.selected_field = 2
               => Settings.backend \in {Chars("user"), Chars("passt"), Chars("bridge")})
    /\ [][app'.network_settings_state.val.backend # Settings.backend
            => Settings.selected_field = 1]_vars

\* The backend has been cycled to passt and the third field is selected.
C29_Witness ==
    /\ Settings.selected_field = 2
    /\ Settings.backend = Chars("passt")
    /\ Settings.model = Chars("none")

Adding == Settings.adding_pf.val
Settings_after == app'.network_settings_state.val

\* C30: in the add dialog the step goes from Protocol to HostPort to GuestPort only;
\* HostPort is left only with a host port that parses as a 16-bit number; and
\* port_forwards changes only by Enter in the GuestPort step with both inputs parsing,
\* which appends the one rule with those values and closes the dialog.
C30_DialogAddsOneCheckedRule ==
    [][Settings.adding_pf.some
        => /\ Settings_after.adding_pf.some
                => \/ Settings_after.adding_pf.val.step = Adding.step
                   \/ /\ Adding.step = "Protocol"
                      /\ Settings_after.adding_pf.val.step = "HostPort"
                   \/ /\ Adding.step = "HostPort"
                      /\ Settings_after.adding_pf.val.step = "GuestPort"
                      /\ Adding.host_port_input # <<>>
                      /\ decimal_value(Adding.host_port_input) \in 0..65535
           /\ Settings_after.port_forwards # Settings.port_forwards
                => /\ Adding.step = "GuestPort"
                   /\ app' = handle_key(app, "Enter")
                   /\ Adding.host_port_input # <<>>
                   /\ Adding.guest_port_input # <<>>
                   /\ decimal_value(Adding.host_port_input) \in 0..65535
                   /\ decimal_value(Adding.guest_port_input) \in 0..65535
                   /\ Settings_after.port_forwards
                        = Append(Settings.port_forwards,
                                 PortForward(Adding.protocol,
                                             decimal_value(Adding.host_port_input),
                                             decimal_value(Adding.guest_port_input)))
                   /\ ~Settings_after.adding_pf.some]_vars

\* The dialog has been closed by adding the rule udp 6666 -> 66.
C30_Witness ==
    /\ Settings.editing_port_forwards
    /\ ~Settings.adding_pf.some
    /\ Settings.port_forwards = <<PortForward(Udp, 6666, 66)>>

====
